---- MODULE Spec2Model ----
(***************************************************************************)
(* Execution and risk core of the options trading portal:                  *)
(*   backend/app/services/risk_manager.py   (RiskManager)                  *)
(*   backend/app/services/order_manager.py  (OrderManager)                 *)
(*   backend/app/services/strategy.py       (OptionsScalpingStrategy.run)  *)
(*   backend/app/main.py                    (queue consumers, refresher)   *)
(*                                                                         *)
(* Money is counted in paise (1/100 rupee) so that every price and P&L of  *)
(* the source (100.50, 102.00, 150.00 ...) is an integer.                  *)
(***************************************************************************)
EXTENDS Integers, Sequences, FiniteSets, TLC

VARIABLES
    rm,         \* the RiskManager instance (its attributes as one record)
    last_op,    \* the last RiskManager call made and what it returned
    n_ops,      \* number of RiskManager calls made so far
    size_in,    \* SpecSize: the arguments of calculate_position_size
    size_out,   \* SpecSize: what calculate_position_size returned
    orders,             \* table "orders": row i is the Order with id i
    trades,             \* table "trades": trades[i] are the rows of order i
    historical_trades,  \* table "historical_trades"
    active_orders,      \* OrderManager.active_orders: broker id -> order id (0: absent)
    open_positions,     \* OrderManager.open_positions: symbol -> position
    broker,             \* the broker's book: entry b is the order with broker id b
    rest,               \* the place_order request running in its worker thread
    queue,              \* ws_client.order_update_queue
    st,                 \* the strategy task (OptionsScalpingStrategy.run)
    hist,               \* history: positions opened and removed, restarts, events
    latest_prices,      \* MarketDataManager.latest_prices: symbol -> entry
    price_history,      \* MarketDataManager.price_history: symbol -> ticks
    last_tick_time,     \* MarketDataManager.last_tick_time (Missing: None)
    candles,            \* table "candles"
    candle_out,         \* what the last get_1m_candle call returned
    clock,              \* datetime.now(), and how often it has moved
    market_data_queue,  \* ws_client.market_data_queue
    tasks,              \* the consumer tasks: "running" or "stopped"
    seen,               \* history: messages sent to and taken by the consumers
    connector,          \* the AngelOneConnector instance (tokens and clients)
    clients,            \* the AngelWsClient instances built so far
    app_state,          \* app.state: the ws_client and the tasks it names
    reader_tasks,       \* the asyncio tasks created for the stream
    conn_hist,          \* history: logins, messages enqueued and applied
    accepted,           \* history: the ticks update_tick stored, per symbol
    notifications,      \* the messages handed to notifier.send_message
    refresher           \* the session refresher: where it is, what it slept

riskVars == <<rm, last_op, n_ops>>
sizeVars == <<size_in, size_out>>
dbVars   == <<orders, trades, historical_trades>>
omVars   == <<active_orders, open_positions>>
envVars  == <<broker, rest, queue>>
coreVars == <<dbVars, omVars, envVars, st, hist>>
mdVars   == <<latest_prices, price_history, last_tick_time>>
connVars == <<connector, clients, app_state, reader_tasks, conn_hist>>
sessionVars == <<connVars, accepted, notifications, refresher>>
feedVars == <<candles, candle_out, clock, market_data_queue, tasks, seen,
              sessionVars>>

\* everything SpecRisk leaves alone
notRiskVars == <<sizeVars, coreVars, mdVars, feedVars>>

\* everything SpecSize leaves alone
notSizeVars == <<last_op, n_ops, coreVars, mdVars, feedVars>>

vars == <<riskVars, sizeVars, coreVars, mdVars, feedVars>>

-----------------------------------------------------------------------------
(* Bounds of the model *)

\* number of RiskManager calls explored by SpecRisk
MaxOps == 6

-----------------------------------------------------------------------------
(* Configuration (settings.risk, loaded from config.yaml) *)

\* settings.risk.max_daily_loss_percent
MaxDailyLossPercent == 2

\* settings.risk.consecutive_losses_stop
ConsecutiveLossesStop == 3

\* settings.risk.risk_per_trade_percent
RiskPerTradePercent == 1

\* settings.risk.volatility_adjustment.high_vol_threshold_percent
HighVolThresholdPercent == 1

\* settings.risk.volatility_adjustment.risk_reduction_factor = 0.5,
\* as the fraction RiskReductionNum / RiskReductionDen
RiskReductionNum == 1
RiskReductionDen == 2

\* account equity handed to RiskManager(account_equity=...), in paise
TEST_EQUITY == 10000000

Abs(x) == IF x < 0 THEN -x ELSE x

\* Python int(a / b) for exact a / b: truncation toward zero
TruncDiv(a, b) ==
    IF (a >= 0) = (b > 0) THEN Abs(a) \div Abs(b) ELSE -(Abs(a) \div Abs(b))

-----------------------------------------------------------------------------
(* RiskManager *)

\* RiskManager.__init__
RiskManagerInit(account_equity) ==
    [ initial_equity       |-> account_equity,
      equity               |-> account_equity,
      max_daily_loss_value |-> TruncDiv(account_equity * MaxDailyLossPercent, 100),
      daily_pnl            |-> 0,
      consecutive_losses   |-> 0,
      is_trading_stopped   |-> FALSE,
      wins                 |-> 0,
      losses               |-> 0,
      total_win_pnl        |-> 0,
      total_loss_pnl       |-> 0 ]

\* stop_trading that also clears the loss streak
stop_trading_clears(r) ==
    [r EXCEPT !.is_trading_stopped = TRUE, !.consecutive_losses = 0]

\* RiskManager.stop_trading
stop_trading(r) ==
    IF ~r.is_trading_stopped
    THEN [r EXCEPT !.is_trading_stopped = TRUE]
    ELSE r

\* RiskManager.can_place_trade
can_place_trade(r) ==
    IF r.is_trading_stopped THEN FALSE ELSE TRUE

\* record_trade with the kill switch released by a winning trade
record_trade_resets(r, pnl) ==
    LET r1 == [r EXCEPT !.daily_pnl = @ + pnl, !.equity = @ + pnl]
        r2 == IF pnl > 0
              THEN [r1 EXCEPT !.wins = @ + 1, !.total_win_pnl = @ + pnl,
                              !.consecutive_losses = 0,
                              !.is_trading_stopped = FALSE]
              ELSE IF pnl < 0
              THEN [r1 EXCEPT !.losses = @ + 1, !.total_loss_pnl = @ + pnl,
                              !.consecutive_losses = @ + 1]
              ELSE r1
        r3 == IF r2.daily_pnl <= -r2.max_daily_loss_value
              THEN stop_trading(r2) ELSE r2
    IN  IF r3.consecutive_losses >= ConsecutiveLossesStop
        THEN stop_trading(r3) ELSE r3

\* record_trade that stops only when the loss streak exceeds the threshold
record_trade_late(r, pnl) ==
    LET r1 == [r EXCEPT !.daily_pnl = @ + pnl, !.equity = @ + pnl]
        r2 == IF pnl > 0
              THEN [r1 EXCEPT !.wins = @ + 1, !.total_win_pnl = @ + pnl,
                              !.consecutive_losses = 0]
              ELSE IF pnl < 0
              THEN [r1 EXCEPT !.losses = @ + 1, !.total_loss_pnl = @ + pnl,
                              !.consecutive_losses = @ + 1]
              ELSE r1
        r3 == IF r2.daily_pnl <= -r2.max_daily_loss_value
              THEN stop_trading(r2) ELSE r2
    IN  IF r3.consecutive_losses > ConsecutiveLossesStop
        THEN stop_trading(r3) ELSE r3

\* record_trade that books a flat trade as a loss
record_trade_flat_loss(r, pnl) ==
    LET r1 == [r EXCEPT !.daily_pnl = @ + pnl, !.equity = @ + pnl]
        r2 == IF pnl > 0
              THEN [r1 EXCEPT !.wins = @ + 1, !.total_win_pnl = @ + pnl,
                              !.consecutive_losses = 0]
              ELSE [r1 EXCEPT !.losses = @ + 1, !.total_loss_pnl = @ + pnl,
                              !.consecutive_losses = @ + 1]
        r3 == IF r2.daily_pnl <= -r2.max_daily_loss_value
              THEN stop_trading(r2) ELSE r2
    IN  IF r3.consecutive_losses >= ConsecutiveLossesStop
        THEN stop_trading(r3) ELSE r3

\* RiskManager.record_trade
record_trade(r, pnl) ==
    LET r1 == [r EXCEPT !.daily_pnl = @ + pnl, !.equity = @ + pnl]
        r2 == IF pnl > 0
              THEN [r1 EXCEPT !.wins = @ + 1, !.total_win_pnl = @ + pnl,
                              !.consecutive_losses = 0]
              ELSE IF pnl < 0
              THEN [r1 EXCEPT !.losses = @ + 1, !.total_loss_pnl = @ + pnl,
                              !.consecutive_losses = @ + 1]
              ELSE r1
        r3 == IF r2.daily_pnl <= -r2.max_daily_loss_value
              THEN stop_trading(r2) ELSE r2
    IN  IF r3.consecutive_losses >= ConsecutiveLossesStop
        THEN stop_trading(r3) ELSE r3

\* high-volatility test of calculate_position_size:
\* (atr / entry_price) * 100 > high_vol_threshold_percent, for entry_price > 0
HighVolatility(entry_price, atr) ==
    atr * 100 > HighVolThresholdPercent * entry_price

\* calculate_position_size that forgets abs() around entry - stop
calculate_position_size_signed(r, entry_price, stop_loss_price, atr) ==
    LET base_num == r.equity * RiskPerTradePercent
        high == HighVolatility(entry_price, atr)
        risk_num == IF high THEN base_num * RiskReductionNum ELSE base_num
        risk_den == IF high THEN 100 * RiskReductionDen ELSE 100
        risk_per_share == entry_price - stop_loss_price
    IN  IF risk_per_share <= 0
        THEN 0
        ELSE TruncDiv(risk_num, risk_den * risk_per_share)

\* RiskManager.calculate_position_size. The risk amount is the exact
\* fraction risk_num / risk_den (paise); int() truncates toward zero.
calculate_position_size(r, entry_price, stop_loss_price, atr) ==
    LET base_num == r.equity * RiskPerTradePercent
        high == HighVolatility(entry_price, atr)
        risk_num == IF high THEN base_num * RiskReductionNum ELSE base_num
        risk_den == IF high THEN 100 * RiskReductionDen ELSE 100
        risk_per_share == Abs(entry_price - stop_loss_price)
    IN  IF risk_per_share <= 0
        THEN 0
        ELSE TruncDiv(risk_num, risk_den * risk_per_share)

-----------------------------------------------------------------------------
(* OrderManager: data *)

\* option symbols the strategy trades; all are in the instrument list
SYMBOLS == {"NIFTY24500CE", "BANKNIFTY52000CE", "FINNIFTY23000CE"}

\* lot_sizes of calculate_options_position_size, in dict order
lot_size_keys == <<"BANKNIFTY", "NIFTY", "FINNIFTY">>
lot_sizes == [BANKNIFTY |-> 15, NIFTY |-> 50, FINNIFTY |-> 40]

\* Python: idx in signal['symbol'] (substring test) for the model's symbols
SymbolContains(symbol, idx) ==
    \/ idx = "NIFTY" /\ symbol \in {"NIFTY24500CE", "BANKNIFTY52000CE",
                                     "FINNIFTY23000CE"}
    \/ idx = "BANKNIFTY" /\ symbol = "BANKNIFTY52000CE"
    \/ idx = "FINNIFTY" /\ symbol = "FINNIFTY23000CE"

\* instrument_manager.get_token(symbol, "NFO"): 0 stands for None
get_token(symbol) == IF symbol \in SYMBOLS THEN 1 ELSE 0

\* RiskManager.get_account_balance(): called by the OrderManager but not
\* defined by the RiskManager of this source tree; taken to be the running
\* equity the Risk Engine holds
get_account_balance(r) == r.equity

\* an absent entry of open_positions
NoPosition ==
    [id |-> 0, symbol |-> "", side |-> "", qty |-> 0, entry_price |-> 0,
     total_cost |-> 0, order_id |-> 0, sole |-> TRUE]

\* an order update as the transport enqueues it
NoUpdate == [orderid |-> 0, status |-> "", averageprice |-> 0, filledshares |-> 0]

\* the trade_log built by handle_order_update for an exit fill
NoTradeLog ==
    [pos_id |-> 0, symbol |-> "", side |-> "", qty |-> 0, entry_price |-> 0,
     exit_price |-> 0, pnl |-> 0]

\* the strategy task at one of its resting points
StrategyAt(pc) ==
    [pc |-> pc, symbol |-> "", side |-> "", qty |-> 0, order_id |-> 0,
     status |-> "", bid |-> 0, reason |-> "", ret |-> "",
     snap |-> [s \in SYMBOLS |-> NoPosition], cur |-> "", sig |-> "",
     sig_entry |-> 0, sig_qty |-> 0]

\* no place_order request in flight
RestIdle == [state |-> "idle", symbol |-> "", side |-> "", qty |-> 0, resp |-> 0]

NoHist ==
    [opened |-> 0, removed |-> 0, restarts |-> 0, events |-> 0]

-----------------------------------------------------------------------------
(* MarketDataManager (market_data_manager.py) and the tick messages         *)

\* a key the message lacks, a number it lacks
NoKey == "<absent>"
Missing == -1

\* the keys ticks are stored under: index symbols and instrument tokens
TickSymbols == {"NIFTY"}
TickTokens == {"26000"}
MarketKeys == TickSymbols \cup TickTokens

\* a message that is not a dict
NotADict ==
    [is_dict |-> FALSE, symbol |-> NoKey, token |-> NoKey, ltp |-> Missing,
     last_price |-> Missing]

\* a dict with the given keys
TickDict(symbol, token, ltp, last_price) ==
    [is_dict |-> TRUE, symbol |-> symbol, token |-> token, ltp |-> ltp,
     last_price |-> last_price]

\* the messages of the market data stream (prices in paise): a tick with
\* 'symbol' and 'ltp', one with 'token' and 'last_price', one without symbol
\* and token, one without a price, and a message that is no dict
Ticks ==
    {TickDict("NIFTY", NoKey, 10000, Missing),
     TickDict(NoKey, "26000", Missing, 10100),
     TickDict(NoKey, NoKey, 10000, Missing),
     TickDict("NIFTY", NoKey, Missing, Missing),
     NotADict}

\* tick_data.get('symbol', tick_data.get('token', ''))
tick_symbol(tick) ==
    IF tick.symbol # NoKey THEN tick.symbol
    ELSE IF tick.token # NoKey THEN tick.token ELSE ""

\* tick_data.get('ltp', tick_data.get('last_price', 0))
tick_ltp(tick) ==
    IF tick.ltp # Missing THEN tick.ltp
    ELSE IF tick.last_price # Missing THEN tick.last_price ELSE 0

\* no entry in latest_prices
NoPriceData == [ltp |-> Missing, timestamp |-> Missing]

\* price_history keeps the last 100 ticks of a symbol
HistoryLimit == 100

\* a 'symbol' that cannot be a key of a dict (a list)
Unhashable == "<unhashable>"

\* update_tick that drops the newest tick when the buffer is full
update_tick_keeps_oldest(tick, now) ==
    LET symbol == tick_symbol(tick)
        ltp    == tick_ltp(tick)
        longer == Append(price_history[symbol], [price |-> ltp, timestamp |-> now])
    IN  IF tick.is_dict /\ symbol # "" /\ symbol # Unhashable
        THEN [latest_prices |->
                 [latest_prices EXCEPT ![symbol] = [ltp |-> ltp, timestamp |-> now]],
              last_tick_time |-> now,
              price_history |->
                 [price_history EXCEPT ![symbol] =
                     IF Len(longer) > HistoryLimit
                     THEN price_history[symbol] ELSE longer]]
        ELSE [latest_prices |-> latest_prices, last_tick_time |-> last_tick_time,
              price_history |-> price_history]

\* MarketDataManager.update_tick(tick_data) at time now: the new
\* latest_prices, last_tick_time and price_history. A symbol that cannot be
\* a key raises TypeError at the first assignment, which the method catches
update_tick(tick, now) ==
    LET symbol == tick_symbol(tick)
        ltp    == tick_ltp(tick)
        longer == Append(price_history[symbol], [price |-> ltp, timestamp |-> now])
    IN  IF tick.is_dict /\ symbol # "" /\ symbol # Unhashable
        THEN [latest_prices |->
                 [latest_prices EXCEPT ![symbol] = [ltp |-> ltp, timestamp |-> now]],
              last_tick_time |-> now,
              price_history |->
                 [price_history EXCEPT ![symbol] =
                     IF Len(longer) > HistoryLimit THEN Tail(longer) ELSE longer]]
        ELSE [latest_prices |-> latest_prices, last_tick_time |-> last_tick_time,
              price_history |-> price_history]

\* the time of startup, in clock units: half a minute past the minute
StartTime == 1

\* no candle returned, no get_1m_candle call made yet
NoCandle ==
    [symbol |-> "", ts |-> Missing, open |-> 0, high |-> 0, low |-> 0,
     close |-> 0, volume |-> 0]
NoCandleOut == [called |-> FALSE, candle |-> NoCandle, stored |-> FALSE]

\* the consumer tasks after startup, and no message sent yet
TasksRunning == [market |-> "running", order |-> "running"]
NoneSeen ==
    [ticks |-> [sent |-> 0, good |-> 0, done |-> 0, bad |-> 0, after |-> 0],
     updates |-> [sent |-> 0, good |-> 0, done |-> 0, bad |-> 0, after |-> 0]]

\* the count of a consumer once it has taken one more message: done counts
\* the well-formed ones, bad the others, after the well-formed ones taken
\* after one that was not
Taken(count, well_formed) ==
    IF well_formed
    THEN [count EXCEPT !.done = @ + 1,
                       !.after = @ + (IF count.bad > 0 THEN 1 ELSE 0)]
    ELSE [count EXCEPT !.bad = @ + 1]

\* AngelOneConnector (services/angel_one.py): a token is the pair of its
\* kind and the number of the login that returned it; NoToken is None
NoToken == <<"", 0>>
Token(kind, login) == <<kind, login>>

\* the connector after __init__: no tokens, no clients (0: None)
NoSession ==
    [refresh_token |-> NoToken, jwt_token |-> NoToken, feed_token |-> NoToken,
     rest_client |-> 0, ws_client |-> 0]

\* app.state before startup_event has set the attributes (0: not set)
NoAppState ==
    [ws_client |-> 0, websocket_task |-> 0, market_data_task |-> 0,
     order_update_task |-> 0, refresh_task |-> 0]

NoConnHist == [logins |-> 0, refreshes |-> 0, sent |-> 0, applied |-> <<>>]

\* refresh_connection_periodically at the top of its loop, before the
\* first sleep: pc is the await it is in or about to enter, waited the
\* seconds it has slept since reconnect() last returned (since its start,
\* before the first call), failed whether that call returned False
RefresherInit == [pc |-> "sleep", waited |-> 0, failed |-> FALSE]

\* the state after AngelOneConnector.__init__, before startup_event
SessionInit ==
    /\ connector = NoSession
    /\ clients = <<>>
    /\ app_state = NoAppState
    /\ reader_tasks = <<>>
    /\ conn_hist = NoConnHist
    /\ accepted = [k \in MarketKeys |-> <<>>]
    /\ notifications = <<>>
    /\ refresher = RefresherInit

\* the state after MarketDataManager.__init__ and the start of the tasks
MarketInit ==
    /\ latest_prices = [k \in MarketKeys |-> NoPriceData]
    /\ price_history = [k \in MarketKeys |-> <<>>]
    /\ last_tick_time = Missing
    /\ candles = <<>>
    /\ candle_out = NoCandleOut
    /\ clock = [now |-> StartTime, moves |-> 0]
    /\ market_data_queue = <<>>
    /\ tasks = TasksRunning
    /\ seen = NoneSeen

\* the state after OrderManager.__init__ and the start of the tasks
CoreInit ==
    /\ orders = <<>>
    /\ trades = <<>>
    /\ historical_trades = <<>>
    /\ active_orders = <<>>
    /\ open_positions = [s \in SYMBOLS |-> NoPosition]
    /\ broker = <<>>
    /\ rest = RestIdle
    /\ queue = <<>>
    /\ st = StrategyAt("sleep")
    /\ hist = NoHist
    /\ MarketInit
    /\ SessionInit

\* the index whose lot size applies: the first key of lot_sizes found in the
\* symbol, "" when there is none
SymbolIndex(symbol) ==
    IF \E i \in 1..Len(lot_size_keys) : SymbolContains(symbol, lot_size_keys[i])
    THEN lot_size_keys[CHOOSE i \in 1..Len(lot_size_keys) :
                          /\ SymbolContains(symbol, lot_size_keys[i])
                          /\ \A j \in 1..(i - 1) :
                                ~SymbolContains(symbol, lot_size_keys[j])]
    ELSE ""

Min(a, b) == IF a < b THEN a ELSE b
Max(a, b) == IF a > b THEN a ELSE b

\* OrderManager.calculate_options_position_size; every exception (a zero
\* premium) is caught and gives 0
calculate_options_position_size(r, symbol, entry_price) ==
    LET risk_num == get_account_balance(r) * RiskPerTradePercent
        index    == SymbolIndex(symbol)
    IN  IF index = "" THEN 0
        ELSE LET lot_size        == lot_sizes[index]
                 premium_per_lot == entry_price * lot_size
             IN  IF premium_per_lot = 0 THEN 0
                 ELSE LET max_lots == TruncDiv(risk_num, 100 * premium_per_lot)
                          lots     == Max(1, Min(max_lots, 3))
                      IN  lots * lot_size

-----------------------------------------------------------------------------
(* SpecRisk: one RiskManager driven by arbitrary calls *)

\* realized P&L values handed to record_trade (paise): the daily limit plus
\* one rupee, two ordinary losses, a flat trade and two wins
TradePnls == {-(TruncDiv(TEST_EQUITY * MaxDailyLossPercent, 100) + 100),
              -15000, -10000, 0, 15000, 30000}

NoOp == [op |-> "none", pnl |-> 0, result |-> TRUE]

NoSizeIn == [entry_price |-> 0, stop_loss_price |-> 0, atr |-> 0]

RiskInit ==
    /\ rm = RiskManagerInit(TEST_EQUITY)
    /\ last_op = NoOp
    /\ n_ops = 0
    /\ size_in = NoSizeIn
    /\ size_out = -1
    /\ CoreInit

\* a caller awaits risk_manager.record_trade(pnl)
RecordTradeCall ==
    \E pnl \in TradePnls :
        /\ n_ops < MaxOps
        /\ rm' = record_trade(rm, pnl)
        /\ last_op' = [op |-> "record_trade", pnl |-> pnl, result |-> TRUE]
        /\ n_ops' = n_ops + 1
        /\ UNCHANGED notRiskVars

\* the control surface's "kill" action awaits risk_manager.stop_trading(...)
KillSwitchCall ==
    /\ n_ops < MaxOps
    /\ rm' = stop_trading(rm)
    /\ last_op' = [op |-> "stop_trading", pnl |-> 0, result |-> TRUE]
    /\ n_ops' = n_ops + 1
    /\ UNCHANGED notRiskVars

\* a caller asks risk_manager.can_place_trade()
CanPlaceTradeCall ==
    /\ n_ops < MaxOps
    /\ rm' = rm
    /\ last_op' = [op |-> "can_place_trade", pnl |-> 0,
                   result |-> can_place_trade(rm)]
    /\ n_ops' = n_ops + 1
    /\ UNCHANGED notRiskVars

RiskNext ==
    \/ RecordTradeCall
    \/ KillSwitchCall
    \/ CanPlaceTradeCall

SpecRisk == RiskInit /\ [][RiskNext]_vars

\* SpecFrame: the calls of SpecRisk and calls of calculate_position_size, on
\* one RiskManager

\* the arguments of the calls (paise): a stop two percent below the entry
\* and one at the entry, a quiet and a volatile market
FrameEntries == {10000}
FrameStops == {9800, 10000}
FrameAtrs == {0, 200}

\* a caller asks risk_manager.calculate_position_size(entry, stop, atr)
SizeCall ==
    \E entry_price \in FrameEntries, stop_loss_price \in FrameStops,
       atr \in FrameAtrs :
        /\ n_ops < MaxOps
        /\ rm' = rm
        /\ size_in' = [entry_price |-> entry_price,
                       stop_loss_price |-> stop_loss_price, atr |-> atr]
        /\ size_out' = calculate_position_size(rm, entry_price, stop_loss_price,
                                               atr)
        /\ last_op' = [op |-> "calculate_position_size", pnl |-> 0,
                       result |-> TRUE]
        /\ n_ops' = n_ops + 1
        /\ UNCHANGED <<coreVars, mdVars, feedVars>>

FrameNext ==
    \/ RecordTradeCall
    \/ KillSwitchCall
    \/ CanPlaceTradeCall
    \/ SizeCall

SpecFrame == RiskInit /\ [][FrameNext]_vars

-----------------------------------------------------------------------------
(* Properties of the RiskManager (SpecRisk) *)

\* the step just taken was a call of the named RiskManager method
Called(name) == n_ops' = n_ops + 1 /\ last_op'.op = name

\* the daily loss has reached max_daily_loss_percent of the starting equity
DailyLossReached(r) ==
    r.daily_pnl * 100 <= -(r.initial_equity * MaxDailyLossPercent)

\* the loss streak has reached consecutive_losses_stop
StreakReached(r) == r.consecutive_losses >= ConsecutiveLossesStop

\* C1: kill-switch latch. Every stop_trading call leaves the halt flag set,
\* and once the flag is set no later call (record_trade with any P&L,
\* stop_trading, can_place_trade) clears it: can_place_trade() is false in
\* every later state and every later can_place_trade call returns false.
C1_KillSwitchLatch ==
    [][ /\ (Called("stop_trading") => rm'.is_trading_stopped)
        /\ (rm.is_trading_stopped =>
               /\ rm'.is_trading_stopped
               /\ ~can_place_trade(rm')
               /\ (Called("can_place_trade") => last_op'.result = FALSE)) ]_vars

\* C1 witness: a winning trade has just been recorded on an engine that was
\* halted before it (neither limit holds after the win, so this call did not
\* set the flag), and the flag is still set.
C1_Witness ==
    /\ last_op.op = "record_trade" /\ last_op.pnl > 0
    /\ ~DailyLossReached(rm) /\ ~StreakReached(rm)
    /\ rm.is_trading_stopped

\* C2: after every record_trade call trading is halted if the daily loss has
\* reached the limit or the loss streak has reached the threshold, and a
\* record_trade call that sets the flag ends with one of the two holding.
C2_HaltIffLimit ==
    [][ Called("record_trade") =>
          /\ (DailyLossReached(rm') \/ StreakReached(rm')
                 => rm'.is_trading_stopped)
          /\ (rm'.is_trading_stopped /\ ~rm.is_trading_stopped
                 => DailyLossReached(rm') \/ StreakReached(rm')) ]_vars

\* C2 witness: the N-th consecutive loss has just been recorded with the
\* daily limit not breached, and the flag is set.
C2_Witness ==
    /\ last_op.op = "record_trade" /\ last_op.pnl < 0
    /\ rm.consecutive_losses = ConsecutiveLossesStop
    /\ rm.losses = ConsecutiveLossesStop /\ rm.wins = 0
    /\ ~DailyLossReached(rm)
    /\ rm.is_trading_stopped

\* C8: record_trade(pnl) with pnl > 0 adds one win and zeroes the loss
\* streak; with pnl < 0 adds exactly one loss and one to the streak; with
\* pnl = 0 leaves wins, losses and the streak unchanged.
C8_CountersPerTrade ==
    [][ Called("record_trade") =>
          LET pnl == last_op'.pnl IN
          /\ (pnl > 0 => /\ rm'.wins = rm.wins + 1
                         /\ rm'.consecutive_losses = 0)
          /\ (pnl < 0 => /\ rm'.losses = rm.losses + 1
                         /\ rm'.consecutive_losses = rm.consecutive_losses + 1)
          /\ (pnl = 0 => /\ rm'.wins = rm.wins
                         /\ rm'.losses = rm.losses
                         /\ rm'.consecutive_losses = rm.consecutive_losses) ]_vars

\* C8 witness: two losses, then a win that reset the streak, then a flat
\* trade that changed nothing (test_pnl_and_consecutive_loss_reset_on_win).
C8_Witness ==
    /\ last_op.op = "record_trade" /\ last_op.pnl = 0
    /\ rm.wins = 1 /\ rm.losses = 2 /\ rm.consecutive_losses = 0
    /\ n_ops = 4

-----------------------------------------------------------------------------
(* SpecSize: calculate_position_size on an engine with some running equity *)

\* running equity (paise): the test equity, and that equity after a loss
\* and after a win that leave it no multiple of the risk per share
SizeEquities == {TEST_EQUITY, TEST_EQUITY - 15300, TEST_EQUITY + 30700}

\* entry prices (paise): 100.00 and 250.00
SizeEntries == {10000, 25000}

\* stop-loss prices (paise), below, at and above the entries. The source
\* computes in doubles; the prices used here (98.00, 99.75, 100.00, 103.00,
\* 247.00, 250.00) are values a double holds exactly, so the exact
\* arithmetic of the model is the arithmetic of the code.
SizeStops == {9800, 9975, 10000, 10300, 24700, 25000}

\* ATR values (paise): 0.25, 1.00, 2.00, 2.50, 3.00
SizeAtrs == {25, 100, 200, 250, 300}

SizeInit ==
    /\ \E eq \in SizeEquities :
           rm = [RiskManagerInit(TEST_EQUITY) EXCEPT
                    !.equity = eq, !.daily_pnl = eq - TEST_EQUITY]
    /\ last_op = NoOp
    /\ n_ops = 0
    /\ size_in \in [entry_price : SizeEntries, stop_loss_price : SizeStops,
                    atr : SizeAtrs]
    /\ size_out = -1
    /\ CoreInit

\* a caller asks risk_manager.calculate_position_size(entry, stop, atr)
CalculatePositionSizeCall ==
    /\ size_out = -1
    /\ size_out' = calculate_position_size(rm, size_in.entry_price,
                                           size_in.stop_loss_price, size_in.atr)
    /\ UNCHANGED <<rm, size_in, notSizeVars>>

SizeNext == CalculatePositionSizeCall

SpecSize == SizeInit /\ [][SizeNext]_vars

-----------------------------------------------------------------------------
(* Spec: the strategy task, the order-update consumer, the broker and the  *)
(* session refresher. The strategy task is interleaved with the others at  *)
(* each of its awaits. handle_order_update is one step: it alone writes    *)
(* open_positions and records trades, and does so after its last await;    *)
(* the strategy task only adds to active_orders, which it looks up first;  *)
(* and no task reads the rows it writes. Its cancellation at one of its    *)
(* awaits is part of RestartConsumer.                                      *)

\* Bounds
MaxOrders   == 2    \* rows of the orders table
MaxEvents   == 3    \* order updates the broker sends and session refreshes

\* settings.risk.max_positions
MaxPositions == 2

\* balance reported by the broker at startup (paise)
AccountEquity == 500000

\* symbols and option premiums (paise) of the signals
SignalSymbols == {"NIFTY24500CE"}
\* execute_options_signal only buys options
SignalSides == {"BUY"}
SignalEntries == {10000}

\* settings.risk.stop_loss_percent: the stop of a signal lies this far below
\* its entry
StopLossPercent == 2
SignalStop(entry_price) == entry_price - (entry_price * StopLossPercent) \div 100
\* the volatility figures (ATR, paise) a signal may be sized with; the
\* signal itself carries none
SignalAtrs == {0, 200}

\* average prices the broker reports (paise): for a part of an order, and
\* for all of it
PartialPrices == {10000}
FillPrices == {10000, 10200}

\* cumulative quantities the broker reports for an order of quantity q:
\* 40 percent of it, and all of it
FillLevels(q) == {(2 * q) \div 5, q} \ {0}

Init ==
    /\ rm = RiskManagerInit(AccountEquity)
    /\ last_op = NoOp
    /\ n_ops = 0
    /\ size_in = NoSizeIn
    /\ size_out = -1
    /\ CoreInit

DictSet(d, k, v) == (k :> v) @@ d
DictDel(d, k) == [x \in (DOMAIN d) \ {k} |-> d[x]]
NumOpen == Cardinality({s \in SYMBOLS : open_positions[s] # NoPosition})

\* manage_options_positions over the position dicts in snap: the loop takes
\* one of them and awaits get_option_data, or is through and the cycle ends
\* in its sleep
NextPosition(t, snap) ==
    IF \A s \in SYMBOLS : snap[s] = NoPosition
    THEN {[StrategyAt("sleep") EXCEPT !.sig = t.sig, !.sig_entry = t.sig_entry,
                                      !.sig_qty = t.sig_qty]}
    ELSE {[StrategyAt("mp_wait") EXCEPT !.snap = snap, !.cur = s, !.sig = t.sig,
                                        !.sig_entry = t.sig_entry,
                                        !.sig_qty = t.sig_qty] :
             s \in {x \in SYMBOLS : snap[x] # NoPosition}}

\* OptionsScalpingStrategy.run, top of the loop: a cycle starts only while
\* the strategy is running and trading is not stopped; its first await is in
\* scan_for_options_signals
CycleStart ==
    /\ st.pc = "sleep"
    /\ ~rm.is_trading_stopped
    /\ st' = StrategyAt("scan")
    /\ UNCHANGED <<riskVars, sizeVars, mdVars, feedVars, dbVars, omVars, envVars, hist>>

\* scan_for_options_signals finds no entry; manage_options_positions takes
\* get_open_positions() and starts on it
ScanNoSignal ==
    /\ st.pc = "scan"
    /\ st' \in NextPosition(st, open_positions)
    /\ UNCHANGED <<riskVars, sizeVars, mdVars, feedVars, dbVars, omVars, envVars, hist>>

\* handle_signal without the test for an existing position
handle_signal_blind(symbol, side, entry_price) ==
    IF ~can_place_trade(rm) THEN 0
    ELSE IF NumOpen >= MaxPositions THEN 0
    ELSE calculate_options_position_size(rm, symbol, entry_price)

\* OrderManager.handle_signal up to its call of create_options_order: the
\* quantity to order, 0 when the signal is dropped
handle_signal(symbol, side, entry_price) ==
    IF open_positions[symbol] # NoPosition THEN 0
    ELSE IF ~can_place_trade(rm) THEN 0
    ELSE IF NumOpen >= MaxPositions THEN 0
    ELSE calculate_options_position_size(rm, symbol, entry_price)

\* a caller awaits order_manager.handle_signal(signal) for a signal on one
\* of symbols and of one of sides while fewer than max_orders orders exist;
\* an accepted signal runs create_options_order up to its first await (the
\* insert), a dropped one lets the cycle go on to manage_options_positions
HandleSignalFor(symbols, sides, max_orders) ==
    \E symbol \in symbols, side \in sides, entry_price \in SignalEntries :
        LET position_size == handle_signal(symbol, side, entry_price)
            t == [st EXCEPT !.sig = symbol, !.sig_entry = entry_price,
                            !.sig_qty = position_size]
        IN
        /\ st.pc = "scan"
        /\ position_size > 0 => Len(orders) < max_orders
        /\ st' \in IF position_size > 0
                   THEN {[t EXCEPT !.pc = "co_insert", !.symbol = symbol,
                                   !.side = side, !.qty = position_size,
                                   !.ret = "manage"]}
                   ELSE NextPosition(t, open_positions)
        /\ UNCHANGED <<riskVars, sizeVars, mdVars, feedVars, dbVars, omVars, envVars, hist>>

\* the signals on the symbols of SignalSymbols
HandleSignalOf(sides, max_orders) == HandleSignalFor(SignalSymbols, sides, max_orders)

\* execute_options_signal calls handle_signal
HandleSignal == HandleSignalOf(SignalSides, MaxOrders)

\* a new row of the orders table
NewOrder(t) ==
    [symbol |-> t.symbol, side |-> t.side, qty |-> t.qty, status |-> "PENDING",
     broker_order_id |-> 0, reason |-> ""]

\* create_options_order: the insert has completed, the order row exists;
\* without a token the FAILED update is issued, otherwise place_order is
\* handed to its worker thread
CreateOrderInserted ==
    /\ st.pc = "co_insert"
    /\ orders' = Append(orders, NewOrder(st))
    /\ trades' = Append(trades, <<>>)
    /\ IF get_token(st.symbol) = 0
       THEN /\ st' = [st EXCEPT !.pc = "co_write", !.order_id = Len(orders) + 1,
                                !.status = "FAILED", !.reason = "TOKEN_NOT_FOUND"]
            /\ UNCHANGED rest
       ELSE /\ st' = [st EXCEPT !.pc = "co_place", !.order_id = Len(orders) + 1]
            /\ rest' = [state |-> "sent", symbol |-> st.symbol, side |-> st.side,
                        qty |-> st.qty, resp |-> 0]
    /\ UNCHANGED <<riskVars, sizeVars, mdVars, feedVars, historical_trades, omVars, broker, queue, hist>>

\* rest_client.place_order in its worker thread: the broker books the order
\* and answers with its id, or the call yields None (resp -1)
BrokerPlaceOrder ==
    /\ rest.state = "sent"
    /\ \/ /\ broker' = Append(broker, [symbol |-> rest.symbol, side |-> rest.side,
                                       qty |-> rest.qty, filled |-> 0,
                                       averageprice |-> 0, status |-> "open"])
          /\ rest' = [rest EXCEPT !.state = "done", !.resp = Len(broker) + 1]
       \/ /\ rest' = [rest EXCEPT !.state = "done", !.resp = -1]
          /\ UNCHANGED broker
    /\ UNCHANGED <<riskVars, sizeVars, mdVars, feedVars, dbVars, omVars, queue, st, hist>>

\* create_options_order: place_order has returned; an order id is entered
\* in active_orders and the SUBMITTED update is issued, anything else
\* issues the FAILED update
CreateOrderPlaced ==
    /\ st.pc = "co_place"
    /\ rest.state = "done"
    /\ rest' = RestIdle
    /\ IF rest.resp > 0
       THEN /\ active_orders' = DictSet(active_orders, rest.resp, st.order_id)
            /\ st' = [st EXCEPT !.pc = "co_write", !.status = "SUBMITTED",
                                !.bid = rest.resp]
       ELSE /\ st' = [st EXCEPT !.pc = "co_write", !.status = "FAILED",
                                !.reason = "NO_RESPONSE"]
            /\ UNCHANGED active_orders
    /\ UNCHANGED <<riskVars, sizeVars, mdVars, feedVars, dbVars, open_positions, broker, queue, hist>>

\* the orders table once the pending update of create_options_order has run
OrderWritten(t) ==
    [orders EXCEPT ![t.order_id] =
        [@ EXCEPT !.status = t.status,
                  !.broker_order_id = IF t.status = "SUBMITTED" THEN t.bid ELSE @,
                  !.reason = IF t.status = "FAILED" THEN t.reason ELSE @]]

\* create_options_order: the SUBMITTED / FAILED update has completed and the
\* call returns, to handle_signal (the cycle goes on to
\* manage_options_positions) or to the loop of manage_options_positions
CreateOrderWritten ==
    /\ st.pc = "co_write"
    /\ orders' = OrderWritten(st)
    /\ st' \in NextPosition(st, IF st.ret = "manage" THEN open_positions ELSE st.snap)
    /\ UNCHANGED <<riskVars, sizeVars, mdVars, feedVars, trades, historical_trades, omVars, envVars, hist>>

\* manage_options_positions: no option data, or no exit condition holds for
\* the position; the loop goes on
ManageKeep ==
    /\ st.pc = "mp_wait"
    /\ st' \in NextPosition(st, [st.snap EXCEPT ![st.cur] = NoPosition])
    /\ UNCHANGED <<riskVars, sizeVars, mdVars, feedVars, dbVars, omVars, envVars, hist>>

\* OrderManager.close_position up to the first await of
\* create_options_order: a SELL order for position['qty']
close_position(t, position) ==
    [t EXCEPT !.pc = "co_insert", !.symbol = position.symbol, !.side = "SELL",
              !.qty = position.qty, !.ret = "mp_iter", !.cur = "",
              !.snap[position.symbol] = NoPosition]

\* manage_options_positions: an exit condition holds and close_position is
\* called with the position dict of the snapshot (run() does the same for
\* every open position outside trading hours)
ManageCloseOf(max_orders) ==
    /\ st.pc = "mp_wait"
    /\ Len(orders) < max_orders
    /\ st' = close_position(st, st.snap[st.cur])
    /\ UNCHANGED <<riskVars, sizeVars, mdVars, feedVars, dbVars, omVars, envVars, hist>>
ManageClose == ManageCloseOf(MaxOrders)

IsFill(status) == status \in {"COMPLETE", "PARTIALLY FILLED"}

\* every status that is not a fill takes the order out of active_orders
KeepsActive_none(status) == FALSE

\* the statuses that are no fill and leave the order in active_orders
KeepsActive(status) == status \in {"OPEN", "SUBMITTED"}

\* realized P&L with the sides exchanged
ExitPnl_mirrored(position, exit_price) ==
    IF position.side = "BUY"
    THEN (position.entry_price - exit_price) * position.qty
    ELSE (exit_price - position.entry_price) * position.qty

\* realized P&L of an exit at exit_price
ExitPnl(position, exit_price) ==
    IF position.side = "BUY"
    THEN (exit_price - position.entry_price) * position.qty
    ELSE (position.entry_price - exit_price) * position.qty

\* entry branch that adds the reported quantity to the position
EntryFill_adds(position, order_id, side, symbol, fill_qty, fill_price) ==
    IF position = NoPosition
    THEN [id |-> hist.opened + 1, symbol |-> symbol, side |-> side,
          qty |-> fill_qty, entry_price |-> fill_price,
          total_cost |-> fill_qty * fill_price, order_id |-> order_id,
          sole |-> TRUE]
    ELSE [position EXCEPT
            !.entry_price = fill_price,
            !.qty = @ + fill_qty,
            !.total_cost = fill_price * fill_qty,
            !.sole = @ /\ position.order_id = order_id]

\* entry branch that opens a position whether or not one is open
EntryFill_reopens(position, order_id, side, symbol, fill_qty, fill_price) ==
    [id |-> hist.opened + 1, symbol |-> symbol, side |-> side,
     qty |-> fill_qty, entry_price |-> fill_price,
     total_cost |-> fill_qty * fill_price, order_id |-> order_id,
     sole |-> position = NoPosition]

\* handle_order_update, entry branch: the position of the symbol after a
\* fill reporting the cumulative fill_qty at the average fill_price. id
\* numbers the positions in the order they are opened, order_id is the
\* order whose fill opened the position and sole tells that no other order
\* has changed it
EntryFill(position, order_id, side, symbol, fill_qty, fill_price) ==
    IF position = NoPosition
    THEN [id |-> hist.opened + 1, symbol |-> symbol, side |-> side,
          qty |-> fill_qty, entry_price |-> fill_price,
          total_cost |-> fill_qty * fill_price, order_id |-> order_id,
          sole |-> TRUE]
    ELSE IF fill_qty - position.qty <= 0
    THEN position
    ELSE [position EXCEPT
            !.entry_price = (fill_price * fill_qty) \div fill_qty,
            !.qty = fill_qty,
            !.total_cost = fill_price * fill_qty,
            !.sole = @ /\ position.order_id = order_id]

\* an id that is not in active_orders is taken for the order's own id
InternalOrderId_guess(update) ==
    IF update.orderid \in DOMAIN active_orders
    THEN active_orders[update.orderid]
    ELSE IF update.orderid \in 1..Len(orders) THEN update.orderid ELSE 0

\* self.active_orders.get(broker_order_id), 0 for None
InternalOrderId(update) ==
    IF update.orderid \in DOMAIN active_orders
    THEN active_orders[update.orderid] ELSE 0

\* the update is a fill of an order on the other side of the symbol's open
\* position
IsExitFill(update) ==
    LET order    == orders[InternalOrderId(update)]
        position == open_positions[order.symbol]
    IN  /\ InternalOrderId(update) # 0
        /\ IsFill(update.status)
        /\ position # NoPosition
        /\ position.side # order.side

\* the exit fill closes the position: it is COMPLETE and pnl_percentage
\* does not divide by zero
ClosesPosition(update) ==
    LET position == open_positions[orders[InternalOrderId(update)].symbol]
    IN  /\ IsExitFill(update)
        /\ update.status = "COMPLETE"
        /\ position.entry_price * position.qty # 0

\* the update is a fill that takes the entry branch
IsEntryFill(update) ==
    /\ InternalOrderId(update) # 0
    /\ IsFill(update.status)
    /\ ~IsExitFill(update)

\* the trade_log of an exit fill
TradeLog(update) ==
    LET order    == orders[InternalOrderId(update)]
        position == open_positions[order.symbol]
    IN  [pos_id |-> position.id, symbol |-> order.symbol, side |-> position.side,
         qty |-> position.qty, entry_price |-> position.entry_price,
         exit_price |-> update.averageprice,
         pnl |-> ExitPnl(position, update.averageprice)]

\* OrderManager.handle_order_update(update), run up to upto: "end" is the
\* whole call; "status" is the call cancelled after its status update and
\* "insert" the call cancelled in the await of its HistoricalTrade or Trade
\* insert when the statement has been executed. An id that is not in
\* active_orders ends the call at once. r counts a restart of the consumer.
handle_order_update(update, upto, r) ==
    LET internal_order_id == InternalOrderId(update)
        known    == internal_order_id # 0
        order    == orders[internal_order_id]
        symbol   == order.symbol
        position == open_positions[symbol]
        closes   == known /\ ClosesPosition(update) /\ upto = "end"
        enters   == known /\ IsEntryFill(update) /\ upto = "end"
        fill_qty   == update.filledshares
        fill_price == update.averageprice
        updated  == EntryFill(position, internal_order_id, order.side, symbol,
                              fill_qty, fill_price)
        ignored  == position # NoPosition /\ fill_qty - position.qty <= 0
        pnl      == TradeLog(update).pnl
    IN
    /\ orders' = IF known
                 THEN [orders EXCEPT ![internal_order_id].status = update.status]
                 ELSE orders
    /\ historical_trades' =
         IF known /\ ClosesPosition(update) /\ upto # "status"
         THEN Append(historical_trades, TradeLog(update))
         ELSE historical_trades
    /\ trades' =
         IF known /\ IsEntryFill(update) /\ upto # "status"
         THEN [trades EXCEPT ![internal_order_id] =
                 Append(@, [fill_price |-> fill_price, qty |-> fill_qty])]
         ELSE trades
    /\ rm' = IF closes THEN record_trade(rm, pnl) ELSE rm
    /\ last_op' = IF closes
                  THEN [op |-> "record_trade", pnl |-> pnl, result |-> TRUE]
                  ELSE last_op
    /\ n_ops' = IF closes THEN n_ops + 1 ELSE n_ops
    /\ open_positions' =
         IF closes THEN [open_positions EXCEPT ![symbol] = NoPosition]
         ELSE IF enters THEN [open_positions EXCEPT ![symbol] = updated]
         ELSE open_positions
    /\ active_orders' =
         IF \/ closes
            \/ enters /\ ~ignored /\ update.status = "COMPLETE"
            \/ /\ known /\ upto = "end" /\ ~IsFill(update.status)
               /\ ~KeepsActive(update.status)
         THEN DictDel(active_orders, update.orderid)
         ELSE active_orders
    \* the position dict is updated in place: a snapshot held by
    \* manage_options_positions sees the new values
    /\ st' = IF /\ enters
                /\ st.snap[symbol] # NoPosition
                /\ st.snap[symbol].id = updated.id
             THEN [st EXCEPT !.snap[symbol] = updated]
             ELSE st
    /\ hist' = [hist EXCEPT
                  !.opened = @ + (IF enters /\ updated.id # position.id THEN 1 ELSE 0),
                  !.removed = @ + (IF closes THEN 1 ELSE 0),
                  !.restarts = @ + r,
                  !.events = @ + r]

\* process_order_updates: queue.get() returns the next update and
\* handle_order_update runs on it
HandleOrderUpdate ==
    /\ queue # <<>>
    /\ handle_order_update(Head(queue), "end", 0)
    /\ queue' = Tail(queue)
    /\ UNCHANGED <<sizeVars, mdVars, feedVars, broker, rest>>
\* the update the broker's stream carries for the order with broker id b
UpdateOf(b, o) ==
    [orderid |-> b,
     status |-> IF o.status = "cancelled" THEN "CANCELLED"
                ELSE IF o.filled = o.qty THEN "COMPLETE" ELSE "PARTIALLY FILLED",
     averageprice |-> o.averageprice, filledshares |-> o.filled]

\* the broker executes more of an order and reports the cumulative
\* quantity and average price (AngelWsClient._on_message enqueues it)
BrokerFill ==
    \E b \in 1..Len(broker) :
      \E level \in FillLevels(broker[b].qty), price \in FillPrices :
        LET o == [broker[b] EXCEPT
                    !.filled = level, !.averageprice = price,
                    !.status = IF level = broker[b].qty THEN "complete" ELSE "open"]
        IN  /\ broker[b].status = "open"
            /\ level > broker[b].filled
            /\ level < broker[b].qty => price \in PartialPrices
            /\ hist.events < MaxEvents
            /\ broker' = [broker EXCEPT ![b] = o]
            /\ queue' = Append(queue, UpdateOf(b, o))
            /\ hist' = [hist EXCEPT !.events = @ + 1]
            /\ UNCHANGED <<riskVars, sizeVars, mdVars, feedVars, dbVars, omVars, rest, st>>

\* the broker sends the current state of a filled order once more
BrokerResend ==
    \E b \in 1..Len(broker) :
        /\ broker[b].filled > 0
        /\ broker[b].status # "cancelled"
        /\ hist.events < MaxEvents
        /\ queue' = Append(queue, UpdateOf(b, broker[b]))
        /\ hist' = [hist EXCEPT !.events = @ + 1]
        /\ UNCHANGED <<riskVars, sizeVars, mdVars, feedVars, dbVars, omVars, broker, rest, st>>

\* the broker cancels what is left of an order
BrokerCancel ==
    \E b \in 1..Len(broker) :
        LET o == [broker[b] EXCEPT !.status = "cancelled"] IN
        /\ broker[b].status = "open"
        /\ hist.events < MaxEvents
        /\ broker' = [broker EXCEPT ![b] = o]
        /\ queue' = Append(queue, UpdateOf(b, o))
        /\ hist' = [hist EXCEPT !.events = @ + 1]
        /\ UNCHANGED <<riskVars, sizeVars, mdVars, feedVars, dbVars, omVars, rest, st>>

\* the orders table after a cancelled strategy task: the statement it was
\* awaiting has been executed, or not
OrdersAfterCancel(t) ==
    IF t.pc = "co_insert" THEN {orders, Append(orders, NewOrder(t))}
    ELSE IF t.pc = "co_write" THEN {orders, OrderWritten(t)}
    ELSE {orders}

\* control_strategy, action "kill": stop_trading, then the running strategy
\* task is cancelled at the await it is suspended in
KillSwitch ==
    /\ ~rm.is_trading_stopped \/ st.pc # "cancelled"
    /\ rm' = stop_trading(rm)
    /\ st' = StrategyAt("cancelled")
    /\ orders' \in OrdersAfterCancel(st)
    /\ trades' = IF Len(orders') > Len(orders) THEN Append(trades, <<>>) ELSE trades
    /\ UNCHANGED <<last_op, n_ops, sizeVars, mdVars, feedVars, historical_trades, omVars, envVars, hist>>

\* refresh_connection_periodically after a successful reconnect: the
\* consumer task is cancelled and a new one is started on the empty queue
\* of the new ws_client. The old consumer is waiting in queue.get(), or is
\* suspended in an await of handle_order_update for the update it took.
RestartConsumer ==
    /\ hist.events < MaxEvents
    /\ queue' = <<>>
    /\ \/ /\ hist' = [hist EXCEPT !.restarts = @ + 1, !.events = @ + 1]
          /\ UNCHANGED <<riskVars, dbVars, omVars, st>>
       \/ /\ queue # <<>>
          /\ InternalOrderId(Head(queue)) # 0
          /\ handle_order_update(Head(queue), "status", 1)
       \/ /\ queue # <<>>
          /\ ClosesPosition(Head(queue)) \/ IsEntryFill(Head(queue))
          /\ handle_order_update(Head(queue), "insert", 1)
    /\ UNCHANGED <<sizeVars, mdVars, feedVars, broker, rest>>

Next ==
    \/ CycleStart
    \/ ScanNoSignal
    \/ HandleSignal
    \/ CreateOrderInserted
    \/ BrokerPlaceOrder
    \/ CreateOrderPlaced
    \/ CreateOrderWritten
    \/ ManageKeep
    \/ ManageClose
    \/ HandleOrderUpdate
    \/ BrokerFill
    \/ BrokerResend
    \/ BrokerCancel
    \/ KillSwitch
    \/ RestartConsumer

Spec == Init /\ [][Next]_vars

-----------------------------------------------------------------------------
(* SpecSides: the strategy task, the consumer, the session refresher and a  *)
(* broker that fills orders, when handle_signal is given signals of either *)
(* side; handle_signal takes the side from the signal, and                 *)
(* TradingEngine._execute_futures_trade sends BUY and SELL.                *)

MaxSideOrders == 2    \* rows of the orders table

BothSides == {"BUY", "SELL"}

\* a caller awaits handle_signal with a BUY or a SELL signal
HandleSideSignal == HandleSignalOf(BothSides, MaxSideOrders)

ManageCloseSides == ManageCloseOf(MaxSideOrders)

NextSides ==
    \/ CycleStart
    \/ ScanNoSignal
    \/ HandleSideSignal
    \/ CreateOrderInserted
    \/ BrokerPlaceOrder
    \/ CreateOrderPlaced
    \/ CreateOrderWritten
    \/ ManageKeep
    \/ ManageCloseSides
    \/ HandleOrderUpdate
    \/ BrokerFill
    \/ RestartConsumer

SpecSides == Init /\ [][NextSides]_vars

-----------------------------------------------------------------------------
(* SpecDeep: the tasks of Spec over one more order                         *)

MaxDeepOrders == 3    \* rows of the orders table

HandleDeepSignal == HandleSignalOf(SignalSides, MaxDeepOrders)

ManageCloseDeep == ManageCloseOf(MaxDeepOrders)

NextDeep ==
    \/ CycleStart
    \/ ScanNoSignal
    \/ HandleDeepSignal
    \/ CreateOrderInserted
    \/ BrokerPlaceOrder
    \/ CreateOrderPlaced
    \/ CreateOrderWritten
    \/ ManageKeep
    \/ ManageCloseDeep
    \/ HandleOrderUpdate
    \/ BrokerFill
    \/ BrokerResend
    \/ BrokerCancel
    \/ KillSwitch
    \/ RestartConsumer

SpecDeep == Init /\ [][NextDeep]_vars

-----------------------------------------------------------------------------
(* SpecLimit: signals on every symbol the strategy trades, and the fills   *)
(* of their orders; no position is closed                                  *)

\* scan_for_options_signals goes through the indices and executes a signal
\* for the option it picked on each
HandleLimitSignal == HandleSignalFor(SYMBOLS, SignalSides, MaxDeepOrders)

NextLimit ==
    \/ CycleStart
    \/ ScanNoSignal
    \/ HandleLimitSignal
    \/ CreateOrderInserted
    \/ BrokerPlaceOrder
    \/ CreateOrderPlaced
    \/ CreateOrderWritten
    \/ ManageKeep
    \/ HandleOrderUpdate
    \/ BrokerFill

SpecLimit == Init /\ [][NextLimit]_vars

-----------------------------------------------------------------------------
(* SpecStatus: the strategy task, the consumer and a broker that also      *)
(* reports orders as open and rejects them                                 *)

MaxStatusOrders == 2    \* rows of the orders table

HandleStatusSignal == HandleSignalOf(SignalSides, MaxStatusOrders)

ManageCloseStatus == ManageCloseOf(MaxStatusOrders)

\* the statuses the broker reports for an order it has booked
AckStatuses == {"OPEN", "SUBMITTED"}

\* the broker reports an order as open, with what is filled of it
BrokerAck ==
    \E b \in 1..Len(broker), status \in AckStatuses :
        /\ broker[b].status = "open"
        /\ hist.events < MaxEvents
        /\ queue' = Append(queue, [UpdateOf(b, broker[b]) EXCEPT !.status = status])
        /\ hist' = [hist EXCEPT !.events = @ + 1]
        /\ UNCHANGED <<riskVars, sizeVars, mdVars, feedVars, dbVars, omVars, broker, rest, st>>

\* the broker rejects an order it has booked
BrokerReject ==
    \E b \in 1..Len(broker) :
        LET o == [broker[b] EXCEPT !.status = "rejected"] IN
        /\ broker[b].status = "open"
        /\ broker[b].filled = 0
        /\ hist.events < MaxEvents
        /\ broker' = [broker EXCEPT ![b] = o]
        /\ queue' = Append(queue, [UpdateOf(b, o) EXCEPT !.status = "REJECTED"])
        /\ hist' = [hist EXCEPT !.events = @ + 1]
        /\ UNCHANGED <<riskVars, sizeVars, mdVars, feedVars, dbVars, omVars, rest, st>>

NextStatus ==
    \/ CycleStart
    \/ ScanNoSignal
    \/ HandleStatusSignal
    \/ CreateOrderInserted
    \/ BrokerPlaceOrder
    \/ CreateOrderPlaced
    \/ CreateOrderWritten
    \/ ManageKeep
    \/ ManageCloseStatus
    \/ HandleOrderUpdate
    \/ BrokerFill
    \/ BrokerAck
    \/ BrokerReject
    \/ BrokerCancel

SpecStatus == Init /\ [][NextStatus]_vars

-----------------------------------------------------------------------------
(* SpecMarket: the market data stream, its consumer task, the clock and the *)
(* candle calls of scan_for_options_signals                                 *)

MaxTicks == 3         \* messages the market data stream sends
MaxClockMoves == 3    \* times datetime.now() is seen to have moved

\* clock units in a minute
ClockPerMinute == 2
MinuteOf(timestamp) == timestamp \div ClockPerMinute

\* the tick has a symbol or token, and a price
WellFormedTick(tick) ==
    /\ tick.is_dict
    /\ tick.symbol # NoKey \/ tick.token # NoKey
    /\ tick.ltp # Missing \/ tick.last_price # Missing

\* AngelWsClient._on_message puts a message of the stream on
\* market_data_queue
SendTick ==
    \E tick \in Ticks :
        /\ seen.ticks.sent < MaxTicks
        /\ market_data_queue' = Append(market_data_queue, tick)
        /\ seen' = [seen EXCEPT
                      !.ticks.sent = @ + 1,
                      !.ticks.good = @ + (IF WellFormedTick(tick) THEN 1 ELSE 0)]
        /\ UNCHANGED <<riskVars, sizeVars, coreVars, mdVars, candles, candle_out,
                       clock, tasks, sessionVars>>

\* process_market_data: queue.get() returns the next message, update_tick
\* runs on it and the message is broadcast; update_tick raises nothing
ProcessMarketData ==
    /\ tasks.market = "running"
    /\ market_data_queue # <<>>
    /\ LET tick == Head(market_data_queue)
           new  == update_tick(tick, clock.now)
       IN  /\ latest_prices' = new.latest_prices
           /\ last_tick_time' = new.last_tick_time
           /\ price_history' = new.price_history
           /\ seen' = [seen EXCEPT !.ticks = Taken(@, WellFormedTick(tick))]
    /\ market_data_queue' = Tail(market_data_queue)
    /\ UNCHANGED <<riskVars, sizeVars, coreVars, candles, candle_out, clock, tasks, sessionVars>>

\* time passes
ClockAdvance ==
    /\ clock.moves < MaxClockMoves
    /\ clock' = [now |-> clock.now + 1, moves |-> clock.moves + 1]
    /\ UNCHANGED <<riskVars, sizeVars, coreVars, mdVars, candles, candle_out,
                   market_data_queue, tasks, seen, sessionVars>>

\* the wall clock datetime.now() reads is set back
ClockStepsBack ==
    /\ clock.moves < MaxClockMoves
    /\ clock.now > 0
    /\ clock' = [now |-> clock.now - 1, moves |-> clock.moves + 1]
    /\ UNCHANGED <<riskVars, sizeVars, coreVars, mdVars, candles, candle_out,
                   market_data_queue, tasks, seen, sessionVars>>

\* the ticks of buffer that lie in minute
TicksOfMinute(buffer, minute) ==
    LET InMinute(t) == MinuteOf(t.timestamp) = minute
    IN  SelectSeq(buffer, InMinute)

\* the one-minute bar of the ticks of a minute: the tick price is the value
\* sampled, the number of ticks stands for the volume
CandleOf(symbol, minute, ticks) ==
    LET prices == {ticks[i].price : i \in 1..Len(ticks)}
    IN  [symbol |-> symbol, ts |-> minute,
         open |-> ticks[1].price,
         high |-> CHOOSE p \in prices : \A q \in prices : q <= p,
         low |-> CHOOSE p \in prices : \A q \in prices : p <= q,
         close |-> ticks[Len(ticks)].price,
         volume |-> Len(ticks)]

\* get_1m_candle that persists without looking for the candle
get_1m_candle_unchecked(symbol, now) ==
    LET buffer == price_history[symbol]
        completed == {m \in {MinuteOf(buffer[i].timestamp) : i \in 1..Len(buffer)} :
                         m < MinuteOf(now)}
        minute == CHOOSE m \in completed : \A k \in completed : k <= m
        candle == CandleOf(symbol, minute, TicksOfMinute(buffer, minute))
    IN  IF completed = {}
        THEN [candle |-> NoCandle, stored |-> FALSE, candles |-> candles,
              price_history |-> price_history]
        ELSE [candle |-> candle, stored |-> TRUE,
              candles |-> Append(candles, candle),
              price_history |->
                 [price_history EXCEPT
                     ![symbol] = TicksOfMinute(buffer, MinuteOf(now))]]

\* MarketDataManager.get_1m_candle(symbol) at time now: the buffered ticks
\* are resampled into one-minute bars and the bar of the most recent
\* completed minute is returned; it is persisted unless the table has a
\* candle for that symbol and minute; the buffer is then trimmed to the
\* ticks of the current minute
get_1m_candle(symbol, now) ==
    LET buffer == price_history[symbol]
        completed == {m \in {MinuteOf(buffer[i].timestamp) : i \in 1..Len(buffer)} :
                         m < MinuteOf(now)}
        minute == CHOOSE m \in completed : \A k \in completed : k <= m
        candle == CandleOf(symbol, minute, TicksOfMinute(buffer, minute))
        exists == \E i \in 1..Len(candles) :
                     candles[i].symbol = symbol /\ candles[i].ts = minute
    IN  IF completed = {}
        THEN [candle |-> NoCandle, stored |-> FALSE, candles |-> candles,
              price_history |-> price_history]
        ELSE [candle |-> candle, stored |-> ~exists,
              candles |-> IF exists THEN candles ELSE Append(candles, candle),
              price_history |->
                 [price_history EXCEPT
                     ![symbol] = TicksOfMinute(buffer, MinuteOf(now))]]

\* scan_for_options_signals awaits market_data_manager.get_1m_candle(symbol)
GetCandle ==
    \E symbol \in MarketKeys :
        LET got == get_1m_candle(symbol, clock.now) IN
        /\ candles' = got.candles
        /\ price_history' = got.price_history
        /\ candle_out' = [called |-> TRUE, candle |-> got.candle,
                          stored |-> got.stored]
        /\ UNCHANGED <<riskVars, sizeVars, coreVars, latest_prices, last_tick_time,
                       clock, market_data_queue, tasks, seen, sessionVars>>

NextMarket ==
    \/ SendTick
    \/ ProcessMarketData
    \/ ClockAdvance
    \/ ClockStepsBack
    \/ GetCandle

SpecMarket == Init /\ [][NextMarket]_vars

-----------------------------------------------------------------------------
(* SpecBuffer: update_tick on a tick buffer that is nearly full            *)

\* the buffer of a symbol after n ticks at rising prices (paise), and the
\* number of ticks NIFTY has had at the start
BufferOf(n) == [i \in 1..n |-> [price |-> 10000 + i, timestamp |-> StartTime]]
Prefilled == HistoryLimit - 1

\* the messages of the stream: a tick for NIFTY, a tick under a token, and
\* a tick whose 'symbol' is a list
BufferTicks ==
    {TickDict("NIFTY", NoKey, 10000, Missing),
     TickDict(NoKey, "26000", Missing, 10100),
     TickDict(Unhashable, NoKey, 10000, Missing)}

\* update_tick stores the tick
Stored(tick) ==
    tick.is_dict /\ tick_symbol(tick) \in MarketKeys

\* the state after Prefilled ticks for NIFTY have been taken
BufferInit ==
    /\ rm = RiskManagerInit(AccountEquity)
    /\ last_op = NoOp
    /\ n_ops = 0
    /\ size_in = NoSizeIn
    /\ size_out = -1
    /\ orders = <<>>
    /\ trades = <<>>
    /\ historical_trades = <<>>
    /\ active_orders = <<>>
    /\ open_positions = [s \in SYMBOLS |-> NoPosition]
    /\ broker = <<>>
    /\ rest = RestIdle
    /\ queue = <<>>
    /\ st = StrategyAt("sleep")
    /\ hist = NoHist
    /\ latest_prices =
         [k \in MarketKeys |->
            IF k = "NIFTY"
            THEN [ltp |-> 10000 + Prefilled, timestamp |-> StartTime]
            ELSE NoPriceData]
    /\ price_history =
         [k \in MarketKeys |-> IF k = "NIFTY" THEN BufferOf(Prefilled) ELSE <<>>]
    /\ last_tick_time = StartTime
    /\ candles = <<>>
    /\ candle_out = NoCandleOut
    /\ clock = [now |-> StartTime, moves |-> 0]
    /\ market_data_queue = <<>>
    /\ tasks = TasksRunning
    /\ seen = [NoneSeen EXCEPT !.ticks.sent = Prefilled, !.ticks.good = Prefilled,
                               !.ticks.done = Prefilled]
    /\ connector = NoSession
    /\ clients = <<>>
    /\ app_state = NoAppState
    /\ reader_tasks = <<>>
    /\ conn_hist = NoConnHist
    /\ accepted =
         [k \in MarketKeys |-> IF k = "NIFTY" THEN BufferOf(Prefilled) ELSE <<>>]
    /\ notifications = <<>>
    /\ refresher = RefresherInit

\* AngelWsClient._on_message puts a message of the stream on
\* market_data_queue
SendBufferTick ==
    \E tick \in BufferTicks :
        /\ seen.ticks.sent < Prefilled + MaxTicks
        /\ market_data_queue' = Append(market_data_queue, tick)
        /\ seen' = [seen EXCEPT
                      !.ticks.sent = @ + 1,
                      !.ticks.good = @ + (IF Stored(tick) THEN 1 ELSE 0)]
        /\ UNCHANGED <<riskVars, sizeVars, coreVars, mdVars, candles, candle_out,
                       clock, tasks, sessionVars>>

\* process_market_data: queue.get() returns the next message and
\* update_tick runs on it
ProcessBufferTicks ==
    /\ tasks.market = "running"
    /\ market_data_queue # <<>>
    /\ LET tick == Head(market_data_queue)
           new  == update_tick(tick, clock.now)
       IN  /\ latest_prices' = new.latest_prices
           /\ last_tick_time' = new.last_tick_time
           /\ price_history' = new.price_history
           /\ seen' = [seen EXCEPT !.ticks = Taken(@, Stored(tick))]
           /\ accepted' =
                IF Stored(tick)
                THEN [accepted EXCEPT ![tick_symbol(tick)] =
                        Append(@, [price |-> tick_ltp(tick),
                                   timestamp |-> clock.now])]
                ELSE accepted
    /\ market_data_queue' = Tail(market_data_queue)
    /\ UNCHANGED <<riskVars, sizeVars, coreVars, candles, candle_out, clock, tasks,
                   connVars, notifications, refresher>>

NextBuffer ==
    \/ SendBufferTick
    \/ ProcessBufferTicks
    \/ ClockAdvance

SpecBuffer == BufferInit /\ [][NextBuffer]_vars

-----------------------------------------------------------------------------
(* SpecLoops: the two consumer tasks of main.py, fed with well-formed and   *)
(* with malformed messages, beside the strategy task. A consumer that can  *)
(* take a message does take it: the event loop resumes the task waiting in *)
(* queue.get().                                                            *)

MaxLoopOrders == 1    \* rows of the orders table
MaxMessages == 2      \* messages the two streams send

\* 'status': None, and a number that int() and float() do not parse
NoneStatus == "<None>"
NotANumber == -2

HandleLoopSignal == HandleSignalOf(SignalSides, MaxLoopOrders)

\* the update has a status and numbers
WellFormedUpdate(update) ==
    /\ update.status # NoneStatus
    /\ update.averageprice # NotANumber
    /\ update.filledshares # NotANumber

\* where handle_order_update raises on the update: "upper" at
\* update.get("status", "").upper(), "parse" at float() or int() after the
\* status update, "" when it raises nothing
RaisesAt(update) ==
    IF update.status = NoneStatus THEN "upper"
    ELSE IF InternalOrderId(update) = 0 \/ ~IsFill(update.status) THEN ""
    ELSE IF IsExitFill(update)
    THEN (IF update.status = "COMPLETE" /\ update.averageprice = NotANumber
          THEN "parse" ELSE "")
    ELSE IF update.filledshares = NotANumber \/ update.averageprice = NotANumber
    THEN "parse" ELSE ""

\* an exception ends the consumer task
AfterException_stops == "stopped"

\* 'except Exception' in the consumer's loop: the error is logged and the
\* loop goes on
AfterException == "running"

\* a message of the market data stream
SendLoopTick ==
    /\ seen.ticks.sent + seen.updates.sent < MaxMessages
    /\ SendTick

\* the order update stream carries the complete fill of an order, or a
\* message for it without status or with a quantity that is no number
SendLoopUpdate ==
    \E b \in 1..Len(broker), price \in FillPrices :
        LET o == [broker[b] EXCEPT !.filled = broker[b].qty,
                                   !.averageprice = price, !.status = "complete"]
        IN
        /\ seen.ticks.sent + seen.updates.sent < MaxMessages
        /\ broker[b].status = "open"
        /\ \E update \in {UpdateOf(b, o),
                          [UpdateOf(b, o) EXCEPT !.status = NoneStatus],
                          [UpdateOf(b, o) EXCEPT !.filledshares = NotANumber]} :
              /\ queue' = Append(queue, update)
              /\ broker' = IF WellFormedUpdate(update)
                           THEN [broker EXCEPT ![b] = o] ELSE broker
              /\ seen' = [seen EXCEPT
                            !.updates.sent = @ + 1,
                            !.updates.good =
                                @ + (IF WellFormedUpdate(update) THEN 1 ELSE 0)]
        /\ UNCHANGED <<riskVars, sizeVars, dbVars, omVars, rest, st, hist, mdVars,
                       candles, candle_out, clock, market_data_queue, tasks, sessionVars>>

\* process_order_updates: queue.get() returns the next update and
\* handle_order_update runs on it, to its end or to the statement that
\* raises; the exception is caught in the loop
ProcessOrderUpdates ==
    /\ tasks.order = "running"
    /\ queue # <<>>
    /\ LET update == Head(queue) IN
       /\ IF RaisesAt(update) = "upper"
          THEN UNCHANGED <<riskVars, dbVars, omVars, st, hist>>
          ELSE handle_order_update(update,
                                   IF RaisesAt(update) = "parse" THEN "status"
                                   ELSE "end", 0)
       /\ tasks' = [tasks EXCEPT
                      !.order = IF RaisesAt(update) = "" THEN @ ELSE AfterException]
       /\ seen' = [seen EXCEPT !.updates = Taken(@, WellFormedUpdate(update))]
    /\ queue' = Tail(queue)
    /\ UNCHANGED <<sizeVars, broker, rest, mdVars, candles, candle_out, clock,
                   market_data_queue, sessionVars>>

NextLoops ==
    \/ CycleStart
    \/ ScanNoSignal
    \/ HandleLoopSignal
    \/ CreateOrderInserted
    \/ BrokerPlaceOrder
    \/ CreateOrderPlaced
    \/ CreateOrderWritten
    \/ ManageKeep
    \/ SendLoopTick
    \/ ProcessMarketData
    \/ SendLoopUpdate
    \/ ProcessOrderUpdates

SpecLoops ==
    Init /\ [][NextLoops]_vars
         /\ WF_vars(ProcessMarketData) /\ WF_vars(ProcessOrderUpdates)

-----------------------------------------------------------------------------
(* SpecConn: startup_event and refresh_connection_periodically of main.py,  *)
(* the login routine of the connector, the streaming clients with their    *)
(* transports, and the reader tasks. The strategy is not started (startup  *)
(* leaves strategy_task None): active_orders stays empty and every order   *)
(* update is for an order id the manager does not hold.                    *)

MaxLogins == 3          \* calls of auth_client.login()
MaxConnMessages == 2    \* messages the transports deliver

\* everything the connection layer leaves alone, but for the position of
\* the refresher
notConnVars ==
    <<riskVars, sizeVars, coreVars, candles, candle_out, clock,
      market_data_queue, tasks, seen, accepted, notifications>>

\* everything the connection layer leaves alone
notSessionVars == <<notConnVars, refresher>>

\* auth_client.login() returns None
NoLogin ==
    [refresh_token |-> NoToken, jwt_token |-> NoToken, feed_token |-> NoToken]

\* auth_client.login(), call number n: None, or the tokens of a new session
login(n) ==
    {NoLogin,
     [refresh_token |-> Token("refresh", n), jwt_token |-> Token("jwt", n),
      feed_token |-> Token("feed", n)]}

\* AngelWsClient.__init__: the tokens, two empty queues, no transport yet
AngelWsClient(auth_token, feed_token) ==
    [auth_token |-> auth_token, feed_token |-> feed_token,
     market_data_queue |-> <<>>, order_update_queue |-> <<>>,
     transport |-> "none"]

\* a login routine that stores what a failed login returned
perform_login_and_init_clients_forgets(login_response) ==
    IF login_response = NoLogin
    THEN [is_success |-> FALSE,
          connector |-> [connector EXCEPT
                           !.refresh_token = login_response.refresh_token,
                           !.jwt_token = login_response.jwt_token,
                           !.feed_token = login_response.feed_token],
          clients |-> clients]
    ELSE [is_success |-> TRUE,
          connector |-> [refresh_token |-> login_response.refresh_token,
                         jwt_token |-> login_response.jwt_token,
                         feed_token |-> login_response.feed_token,
                         rest_client |-> conn_hist.logins + 1,
                         ws_client |-> Len(clients) + 1],
          clients |-> Append(clients,
                             AngelWsClient(login_response.jwt_token,
                                           login_response.feed_token))]

\* a login routine that keeps the streaming client it has
perform_login_and_init_clients_keeps(login_response) ==
    IF login_response = NoLogin
    THEN [is_success |-> FALSE, connector |-> connector, clients |-> clients]
    ELSE IF connector.ws_client # 0
    THEN [is_success |-> TRUE,
          connector |-> [connector EXCEPT
                           !.refresh_token = login_response.refresh_token,
                           !.jwt_token = login_response.jwt_token,
                           !.feed_token = login_response.feed_token,
                           !.rest_client = conn_hist.logins + 1],
          clients |-> clients]
    ELSE [is_success |-> TRUE,
          connector |-> [refresh_token |-> login_response.refresh_token,
                         jwt_token |-> login_response.jwt_token,
                         feed_token |-> login_response.feed_token,
                         rest_client |-> conn_hist.logins + 1,
                         ws_client |-> Len(clients) + 1],
          clients |-> Append(clients,
                             AngelWsClient(login_response.jwt_token,
                                           login_response.feed_token))]

\* AngelOneConnector._perform_login_and_init_clients once login() has
\* returned login_response: None changes nothing; otherwise the tokens are
\* stored and a new REST client (numbered by the login) and a new streaming
\* client are constructed
perform_login_and_init_clients(login_response) ==
    IF login_response = NoLogin
    THEN [is_success |-> FALSE, connector |-> connector, clients |-> clients]
    ELSE [is_success |-> TRUE,
          connector |-> [refresh_token |-> login_response.refresh_token,
                         jwt_token |-> login_response.jwt_token,
                         feed_token |-> login_response.feed_token,
                         rest_client |-> conn_hist.logins + 1,
                         ws_client |-> Len(clients) + 1],
          clients |-> Append(clients,
                             AngelWsClient(login_response.jwt_token,
                                           login_response.feed_token))]

\* the tasks that read the stream of a client
ReaderKinds == {"websocket", "market_data", "order_update"}

\* asyncio.create_task: a task of kind for client c; busy is the number of
\* the message the task is processing, 0 while it waits
Task(kind, c) == [kind |-> kind, client |-> c, state |-> "running", busy |-> 0]

\* a cancel() that has no effect
cancel_ignored(task) == task

\* 'if not task.done(): task.cancel()': the task gets CancelledError at the
\* await it is suspended in and ends
cancel(task) ==
    IF task.state = "running" THEN [task EXCEPT !.state = "cancelled"] ELSE task

\* the three create_task calls for client c
StartReaders(before, c) ==
    before \o <<Task("websocket", c), Task("market_data", c),
                Task("order_update", c)>>

\* app.state once the three tasks, created after n others, are stored
ReadersStored(state, c, n) ==
    [state EXCEPT !.ws_client = c, !.websocket_task = n + 1,
                  !.market_data_task = n + 2, !.order_update_task = n + 3]

\* startup_event: connector.connect(); when it fails startup returns;
\* otherwise the three tasks are started if there are tokens to subscribe,
\* and the session refresher is started
Startup ==
    \E login_response \in login(1), subscribed \in BOOLEAN :
        LET done == perform_login_and_init_clients(login_response)
            c    == done.connector.ws_client
        IN
        /\ conn_hist.logins = 0
        /\ connector' = done.connector
        /\ conn_hist' = [conn_hist EXCEPT !.logins = 1]
        /\ IF ~done.is_success
           THEN /\ clients' = done.clients
                /\ UNCHANGED <<app_state, reader_tasks>>
           ELSE IF subscribed
           THEN /\ clients' = [done.clients EXCEPT ![c].transport = "running"]
                /\ reader_tasks' = Append(StartReaders(reader_tasks, c),
                                          Task("refresh", 0))
                /\ app_state' = [ReadersStored(app_state, c, 0) EXCEPT
                                    !.refresh_task = 4]
           ELSE /\ clients' = done.clients
                /\ reader_tasks' = <<Task("refresh", 0)>>
                /\ app_state' = [app_state EXCEPT !.refresh_task = 1]
        /\ UNCHANGED <<notSessionVars, mdVars>>

\* the tasks app.state names, after the cancel() calls of the refresher
ReadersCancelled ==
    [i \in DOMAIN reader_tasks |->
        IF i \in {app_state.websocket_task, app_state.market_data_task,
                  app_state.order_update_task}
        THEN cancel(reader_tasks[i]) ELSE reader_tasks[i]]

\* refresh_connection_periodically from 'is_success = await
\* connector.reconnect()' to the end of its if/else, where login() has
\* returned login_response: on success the three tasks app.state names are
\* cancelled and three new ones are started for the new ws_client
Reconnect(login_response) ==
    LET done == perform_login_and_init_clients(login_response)
        c    == done.connector.ws_client
    IN
    /\ connector' = done.connector
    /\ IF done.is_success
       THEN /\ clients' = [done.clients EXCEPT ![c].transport = "running"]
            /\ reader_tasks' = StartReaders(ReadersCancelled, c)
            /\ app_state' = ReadersStored(app_state, c, Len(reader_tasks))
            /\ conn_hist' = [conn_hist EXCEPT !.logins = @ + 1,
                                              !.refreshes = @ + 1]
       ELSE /\ clients' = done.clients
            /\ conn_hist' = [conn_hist EXCEPT !.logins = @ + 1]
            /\ UNCHANGED <<app_state, reader_tasks>>

\* refresh_connection_periodically, one round, whatever it sleeps
RefreshConnection ==
    \E login_response \in login(conn_hist.logins + 1) :
        /\ app_state.refresh_task # 0
        /\ conn_hist.logins < MaxLogins
        /\ Reconnect(login_response)
        /\ UNCHANGED <<notSessionVars, mdVars>>

\* message number n of a stream: an order update (a dict with 'orderid')
\* for an order id nobody holds, or a tick
OrderMessage(n) ==
    [seq |-> n, has_orderid |-> TRUE,
     update |-> [NoUpdate EXCEPT !.orderid = 1, !.status = "COMPLETE"],
     tick |-> NotADict]
TickMessage(n) ==
    [seq |-> n, has_orderid |-> FALSE, update |-> NoUpdate,
     tick |-> TickDict("NIFTY", NoKey, 10000, Missing)]

\* AngelWsClient._on_message: a dict with 'orderid' is put on
\* order_update_queue, any other message on market_data_queue
on_message(client, message) ==
    IF message.has_orderid
    THEN [client EXCEPT !.order_update_queue = Append(@, message)]
    ELSE [client EXCEPT !.market_data_queue = Append(@, message)]

\* run_forever of a client's WebSocketApp, in its worker thread, receives a
\* message and calls _on_message
TransportDelivers ==
    \E c \in DOMAIN clients :
      \E message \in {OrderMessage(conn_hist.sent + 1),
                      TickMessage(conn_hist.sent + 1)} :
        /\ clients[c].transport = "running"
        /\ conn_hist.sent < MaxConnMessages
        /\ clients' = [clients EXCEPT ![c] = on_message(@, message)]
        /\ conn_hist' = [conn_hist EXCEPT !.sent = @ + 1]
        /\ UNCHANGED <<notSessionVars, mdVars, connector, app_state, reader_tasks>>

\* the socket of a client is closed by the other side: run_forever returns
\* and the task awaiting it, unless cancelled, is done
TransportCloses ==
    \E c \in DOMAIN clients :
        /\ clients[c].transport = "running"
        /\ clients' = [clients EXCEPT ![c].transport = "closed"]
        /\ reader_tasks' =
             [i \in DOMAIN reader_tasks |->
                IF /\ reader_tasks[i].kind = "websocket"
                   /\ reader_tasks[i].client = c
                   /\ reader_tasks[i].state = "running"
                THEN [reader_tasks[i] EXCEPT !.state = "done"]
                ELSE reader_tasks[i]]
        /\ UNCHANGED <<notSessionVars, mdVars, connector, app_state, conn_hist>>

\* a queue that hands out its newest item
queue_get_last(q) == [item |-> q[Len(q)], rest |-> SubSeq(q, 1, Len(q) - 1)]

\* asyncio.Queue.get on a queue that is not empty: the oldest item
queue_get(q) == [item |-> Head(q), rest |-> Tail(q)]

\* process_market_data of a running task: queue.get() returns the next
\* message of its client's market_data_queue, update_tick runs on it and
\* the message is broadcast
ProcessTicks ==
    \E t \in DOMAIN reader_tasks :
        LET task == reader_tasks[t]
            c    == task.client
            got  == queue_get(clients[c].market_data_queue)
            new  == update_tick(got.item.tick, clock.now)
        IN
        /\ task.kind = "market_data"
        /\ task.state = "running"
        /\ clients[c].market_data_queue # <<>>
        /\ clients' = [clients EXCEPT ![c].market_data_queue = got.rest]
        /\ latest_prices' = new.latest_prices
        /\ last_tick_time' = new.last_tick_time
        /\ price_history' = new.price_history
        /\ UNCHANGED <<notSessionVars, connector, app_state, reader_tasks, conn_hist>>

\* process_order_updates of a running task: queue.get() returns the next
\* update of its client's order_update_queue and handle_order_update runs
\* on it; the task then awaits the broadcasts
TakeUpdate ==
    \E t \in DOMAIN reader_tasks :
        LET task == reader_tasks[t]
            c    == task.client
            got  == queue_get(clients[c].order_update_queue)
        IN
        /\ task.kind = "order_update"
        /\ task.state = "running"
        /\ task.busy = 0
        /\ clients[c].order_update_queue # <<>>
        /\ handle_order_update(got.item.update, "end", 0)
        /\ clients' = [clients EXCEPT ![c].order_update_queue = got.rest]
        /\ reader_tasks' = [reader_tasks EXCEPT ![t].busy = got.item.seq]
        /\ conn_hist' = [conn_hist EXCEPT
                           !.applied = Append(@, [seq |-> got.item.seq,
                                                  client |-> c])]
        /\ UNCHANGED <<sizeVars, broker, rest, queue, mdVars, candles, candle_out,
                       clock, market_data_queue, tasks, seen, accepted,
                       notifications, refresher, connector, app_state>>

\* process_order_updates: the broadcasts are through, queue.task_done(),
\* and the loop is back in queue.get()
UpdateDone ==
    \E t \in DOMAIN reader_tasks :
        /\ reader_tasks[t].kind = "order_update"
        /\ reader_tasks[t].state = "running"
        /\ reader_tasks[t].busy # 0
        /\ reader_tasks' = [reader_tasks EXCEPT ![t].busy = 0]
        /\ UNCHANGED <<notSessionVars, mdVars, connector, clients, app_state,
                       conn_hist>>

NextConn ==
    \/ Startup
    \/ RefreshConnection
    \/ TransportDelivers
    \/ TransportCloses
    \/ ProcessTicks
    \/ TakeUpdate
    \/ UpdateDone

SpecConn == Init /\ [][NextConn]_vars

-----------------------------------------------------------------------------
(* SpecRefresh: the connection layer with the sleeps of the refresher      *)

\* sleep_duration = 23.5 * 60 * 60, and the sleep after a failed refresh
RefreshInterval == 84600
BackOff == 3600

\* refresh_connection_periodically, top of the loop: 'await
\* asyncio.sleep(sleep_duration)' returns
RefresherSleeps ==
    /\ app_state.refresh_task # 0
    /\ refresher.pc = "sleep"
    /\ conn_hist.logins < MaxLogins
    /\ refresher' = [refresher EXCEPT !.pc = "reconnect",
                                      !.waited = @ + RefreshInterval]
    /\ UNCHANGED <<notConnVars, mdVars, connVars>>

\* refresh_connection_periodically: reconnect() returns; after a success
\* the tasks are restarted and the loop is back at its sleep, after a
\* failure the task enters 'await asyncio.sleep(3600)'
RefresherReconnects ==
    \E login_response \in login(conn_hist.logins + 1) :
        /\ app_state.refresh_task # 0
        /\ refresher.pc = "reconnect"
        /\ Reconnect(login_response)
        /\ refresher' = [pc |-> IF login_response = NoLogin
                                THEN "backoff" ELSE "sleep",
                         waited |-> 0,
                         failed |-> login_response = NoLogin]
        /\ UNCHANGED <<notConnVars, mdVars>>

\* refresh_connection_periodically: the sleep of the else branch returns
\* and the while loop starts over
RefresherBacksOff ==
    /\ refresher.pc = "backoff"
    /\ refresher' = [refresher EXCEPT !.pc = "sleep", !.waited = @ + BackOff]
    /\ UNCHANGED <<notConnVars, mdVars, connVars>>

NextRefresh ==
    \/ Startup
    \/ RefresherSleeps
    \/ RefresherReconnects
    \/ RefresherBacksOff
    \/ TransportDelivers
    \/ TransportCloses
    \/ ProcessTicks
    \/ TakeUpdate
    \/ UpdateDone

SpecRefresh == Init /\ [][NextRefresh]_vars

-----------------------------------------------------------------------------
(* Order placement and the halt                                            *)

\* the step in which place_order is handed to the broker
PlacesOrder == rest.state # "sent" /\ rest'.state = "sent"

\* the step in which the strategy calls handle_signal for st'.sig
CallsHandleSignal == st.pc = "scan" /\ st'.sig # ""

\* C3: once the halt flag is set no order is placed through the broker, by
\* handle_signal or by close_position, however the strategy loop and the
\* order-update consumer interleave
C3_NoOrderOnceHalted == [][PlacesOrder => ~rm.is_trading_stopped]_vars

\* C10: handle_signal for a symbol that has an open position, or called
\* while can_place_trade() is false, creates no order row, makes no broker
\* call and leaves active_orders and open_positions as they are
C10_RejectedSignal ==
    [][(/\ CallsHandleSignal
        /\ open_positions[st'.sig] # NoPosition \/ ~can_place_trade(rm))
       => /\ st'.pc \notin {"co_insert", "co_place", "co_write"}
          /\ orders' = orders
          /\ rest' = rest
          /\ broker' = broker
          /\ active_orders' = active_orders
          /\ open_positions' = open_positions]_vars

\* a signal has been dropped for a symbol with an open position or under
\* the halt
C10_Witness ==
    /\ st.sig # ""
    /\ st.sig_qty = 0
    /\ st.pc \in {"mp_wait", "sleep"}
    /\ open_positions[st.sig] # NoPosition \/ rm.is_trading_stopped
-----------------------------------------------------------------------------
(* Positions and fills                                                     *)

\* the step is handle_order_update run to its end on update
Handles(update) ==
    /\ queue # <<>>
    /\ update = Head(queue)
    /\ queue' = Tail(queue)
    /\ hist'.restarts = hist.restarts

\* the update the consumer takes next
Arriving == IF queue = <<>> THEN {} ELSE {Head(queue)}

\* positions opened and not removed are the positions held, one per symbol
OpenedAreHeld == hist.opened - hist.removed = NumOpen

\* a position that was not there before is there for symbol s
Opens(s) ==
    /\ open_positions'[s] # NoPosition
    /\ open_positions'[s].id # open_positions[s].id

\* C4: every symbol has at most one open position in every reachable state
\* (no position is opened over another), and a position is opened only by
\* a fill handled while the symbol has no open position
C4_OnePositionPerSymbol ==
    /\ []OpenedAreHeld
    /\ [][\A s \in SYMBOLS :
            Opens(s) => /\ open_positions[s] = NoPosition
                        /\ queue # <<>>
                        /\ Handles(Head(queue))
                        /\ IsEntryFill(Head(queue))
                        /\ orders[InternalOrderId(Head(queue))].symbol = s]_vars

\* a second fill has been handled for an order whose first fill opened the
\* position that is still the only one of its symbol
C4_Witness ==
    \E s \in SYMBOLS :
        /\ open_positions[s] # NoPosition
        /\ Len(trades[open_positions[s].order_id]) >= 2
        /\ hist.opened = 1

RealizedPnl(position, exit_price) ==
    IF position.side = "BUY"
    THEN (exit_price - position.entry_price) * position.qty
    ELSE (position.entry_price - exit_price) * position.qty

C7_OneTradePerClose ==
    /\ Len(historical_trades) = hist.removed
    /\ \A i \in 1..Len(historical_trades), s \in SYMBOLS :
         open_positions[s] # NoPosition
            => historical_trades[i].pos_id # open_positions[s].id

-----------------------------------------------------------------------------
(* Claims about create_options_order and the sizing of orders *)

\* create_options_order returns to handle_signal: its last update has
\* completed and the strategy task goes on
ReturnsToHandleSignal ==
    /\ st.pc = "co_write"
    /\ st.ret = "manage"
    /\ st'.pc \notin {"co_write", "cancelled"}

\* the broker ids under which active_orders holds the order
RegisteredAs(index, order_id) ==
    {b \in DOMAIN index : index[b] = order_id}

\* C11: every order created by handle_signal ends the call either SUBMITTED,
\* with the broker's id stored on the order and entered in active_orders, or
\* FAILED with a non-empty reason and not entered in active_orders; no order
\* is left PENDING
C11_OrderOutcome ==
    [][ReturnsToHandleSignal =>
         LET order == orders'[st.order_id] IN
         \/ /\ order.status = "SUBMITTED"
            /\ order.broker_order_id > 0
            /\ RegisteredAs(active_orders', st.order_id) = {order.broker_order_id}
         \/ /\ order.status = "FAILED"
            /\ order.reason # ""
            /\ RegisteredAs(active_orders', st.order_id) = {}]_vars

\* handle_signal creates an order for the signal
OrdersSignal == st.pc = "scan" /\ st'.pc = "co_insert"

\* C12: the quantity of every order created by handle_signal is the Risk
\* Engine's calculate_position_size for the signal's entry and stop and a
\* volatility figure, and a signal sized zero creates no order
C12_SizedByRiskEngine ==
    [][/\ OrdersSignal =>
            /\ st'.qty > 0
            /\ \E atr \in SignalAtrs :
                 st'.qty = calculate_position_size(rm, st'.sig_entry,
                                                   SignalStop(st'.sig_entry), atr)
       /\ CallsHandleSignal /\ st'.sig_qty = 0 => ~OrdersSignal]_vars

-----------------------------------------------------------------------------
(* Claims about the order updates handle_order_update takes *)

\* C13: an order update whose broker id is not in active_orders is dropped:
\* it writes no row, creates no order and no position, and leaves
\* active_orders, the open positions and the risk state as they are
C13_UnknownUpdateDropped ==
    [][\A update \in Arriving :
         Handles(update) /\ update.orderid \notin DOMAIN active_orders =>
            UNCHANGED <<orders, trades, historical_trades, active_orders,
                        open_positions, riskVars>>]_vars

\* the consumer has taken every update the broker sent, a fill among them,
\* and nothing shows it: the fill's id was not in active_orders
C13_Witness ==
    /\ hist.restarts = 0
    /\ queue = <<>>
    /\ \E b \in 1..Len(broker) : broker[b].filled > 0
    /\ hist.opened = 0
    /\ historical_trades = <<>>
    /\ \A i \in 1..Len(orders) :
         trades[i] = <<>> /\ orders[i].status \in {"PENDING", "SUBMITTED"}

\* the statuses that end an order
TerminalStatuses == {"COMPLETE", "CANCELLED", "REJECTED"}

\* C14: terminal orders accept no further updates: once an update with
\* status COMPLETE, CANCELLED or REJECTED has been processed for an order,
\* its broker id is no longer in active_orders (so that every later update
\* with that id is dropped and changes no order, position, trade or risk
\* state)
C14_TerminalOrderLeavesIndex ==
    [][\A update \in Arriving :
         Handles(update) /\ update.status \in TerminalStatuses =>
            update.orderid \notin DOMAIN active_orders']_vars

\* the edges of the order state machine; the partly filled status is stored
\* as the broker spells it
StatusEdge(from, to) ==
    \/ from = "PENDING" /\ to \in {"SUBMITTED", "FAILED"}
    \/ /\ from \in {"SUBMITTED", "PARTIALLY FILLED"}
       /\ to \in {"PARTIALLY FILLED", "COMPLETE", "FAILED", "CANCELLED"}

\* C15: the persisted status of every order changes only along the edges of
\* the order state machine: PENDING to SUBMITTED or FAILED; SUBMITTED or
\* PARTIALLY_FILLED to PARTIALLY_FILLED, COMPLETE, FAILED or CANCELLED; a new
\* order starts PENDING
C15_StatusEdges ==
    [][/\ \A i \in 1..Len(orders) :
            orders'[i].status # orders[i].status =>
                StatusEdge(orders[i].status, orders'[i].status)
       /\ \A i \in (Len(orders) + 1)..Len(orders') :
            orders'[i].status = "PENDING"]_vars

\* C16: an order update that is not a fill never touches positions, trades
\* or the risk state: it changes only the status of its order; with status
\* OPEN or SUBMITTED the order stays in active_orders, with any other status
\* (CANCELLED, REJECTED) the order is also taken out of active_orders
C16_NonFillUpdate ==
    [][\A update \in Arriving :
         /\ Handles(update)
         /\ update.orderid \in DOMAIN active_orders
         /\ ~IsFill(update.status)
         => /\ orders' = [orders EXCEPT
                            ![active_orders[update.orderid]].status = update.status]
            /\ UNCHANGED <<trades, historical_trades, open_positions, riskVars>>
            /\ active_orders' =
                 IF update.status \in {"OPEN", "SUBMITTED"}
                 THEN active_orders
                 ELSE DictDel(active_orders, update.orderid)]_vars

\* one order has been reported open and is in active_orders, another has
\* been rejected or cancelled and is not
C16_Witness ==
    \E i, j \in 1..Len(orders) :
        /\ orders[i].status = "OPEN"
        /\ RegisteredAs(active_orders, i) # {}
        /\ orders[j].status \in {"REJECTED", "CANCELLED"}
        /\ RegisteredAs(active_orders, j) = {}

-----------------------------------------------------------------------------
(* Claims about close_position *)

\* manage_options_positions calls close_position for the position it holds
CallsClosePosition == st.pc = "mp_wait" /\ st'.pc = "co_insert"

\* C17: close_position(position, reason) orders the position's symbol, on
\* the side opposite to the position's side (SELL for a BUY position, BUY for
\* a SELL position), in the position's full open quantity at the time of the
\* call
C17_ClosingOrder ==
    [][CallsClosePosition =>
         LET position == st.snap[st.cur] IN
         /\ st'.symbol = position.symbol
         /\ st'.side = (IF position.side = "BUY" THEN "SELL" ELSE "BUY")
         /\ st'.qty = position.qty]_vars

-----------------------------------------------------------------------------
(* Claims about market data *)

\* the rows of candles for a symbol and minute
CandleRows(table, symbol, minute) ==
    {i \in 1..Len(table) : table[i].symbol = symbol /\ table[i].ts = minute}

ArrivingTick == IF market_data_queue = <<>> THEN {} ELSE {Head(market_data_queue)}

\* the step is update_tick run on tick
TakesTick(tick) ==
    /\ market_data_queue # <<>>
    /\ tick = Head(market_data_queue)
    /\ market_data_queue' = Tail(market_data_queue)

\* C19: update_tick validates its input: a tick that lacks a symbol/token or
\* lacks a price leaves latest_prices, price_history and last_tick_time
\* unchanged; a tick that has both sets the symbol's latest price to the
\* tick's price, appends one entry to the symbol's buffer and sets
\* last_tick_time to the time of the update
C19_UpdateTickValidates ==
    [][\A tick \in ArrivingTick :
         TakesTick(tick) =>
            IF WellFormedTick(tick)
            THEN LET symbol == tick_symbol(tick)
                     buffer == price_history'[symbol]
                 IN  /\ latest_prices'[symbol].ltp = tick_ltp(tick)
                     /\ Len(buffer) = Len(price_history[symbol]) + 1
                     /\ buffer[Len(buffer)].price = tick_ltp(tick)
                     /\ last_tick_time' = clock.now
            ELSE UNCHANGED mdVars]_vars

-----------------------------------------------------------------------------
(* Claims about the consumer loops *)

\* C20: a malformed tick or order update never terminates its consuming
\* loop: both consumer tasks keep running whatever they dequeue, and every
\* well-formed message that is enqueued is processed, those enqueued after a
\* malformed one included
C20_LoopsKeepRunning ==
    /\ [](tasks = TasksRunning)
    /\ \A k \in 1..MaxMessages :
         /\ (seen.ticks.good >= k) ~> (seen.ticks.done >= k)
         /\ (seen.updates.good >= k) ~> (seen.updates.done >= k)

\* a consumer has taken a malformed message and, after it, a well-formed one
C20_Witness ==
    /\ tasks = TasksRunning
    /\ seen.ticks.after > 0 \/ seen.updates.after > 0

-----------------------------------------------------------------------------
(* The connection session                                                  *)

\* the step is a successful connect() at startup or a successful reconnect()
Connects ==
    \/ conn_hist.logins = 0 /\ app_state'.refresh_task # 0
    \/ conn_hist'.refreshes > conn_hist.refreshes

\* the tokens the connector stores and the clients it holds are those of
\* login number n
SessionOf(c, all_clients, n) ==
    /\ c.refresh_token = Token("refresh", n)
    /\ c.jwt_token = Token("jwt", n)
    /\ c.feed_token = Token("feed", n)
    /\ c.rest_client = n
    /\ c.ws_client \in DOMAIN all_clients
    /\ all_clients[c.ws_client].auth_token = c.jwt_token
    /\ all_clients[c.ws_client].feed_token = c.feed_token

Running(all_tasks, kind) ==
    {i \in DOMAIN all_tasks :
        all_tasks[i].kind = kind /\ all_tasks[i].state = "running"}

C23_OneLiveTransport ==
    \A c \in DOMAIN clients :
        clients[c].transport = "running" => c = connector.ws_client

-----------------------------------------------------------------------------
(* Reconnect and the order state                                           *)

\* no order update is left partially applied: every Historical Trade is of
\* a position that has been removed from open_positions and whose P&L
\* record_trade has taken, and no order persisted as COMPLETE is in
\* active_orders
FullyApplied ==
    /\ \A i \in 1..Len(historical_trades) :
          open_positions[historical_trades[i].symbol].id
              # historical_trades[i].pos_id
    /\ Len(historical_trades) = hist.removed
    /\ Len(historical_trades) = n_ops
    /\ \A b \in DOMAIN active_orders :
          orders[active_orders[b]].status # "COMPLETE"

\* C24: a reconnect, which cancels the order-update consumer, leaves no
\* order update partially applied: when the state before it is fully
\* applied, so is every state after it
C24_ReconnectKeepsState ==
    [][(hist'.restarts > hist.restarts /\ FullyApplied) => FullyApplied']_vars

-----------------------------------------------------------------------------
(* Tables and memory                                                       *)

\* every order in active_orders has its broker id in its row
RowBeforeIndex ==
    \A b \in DOMAIN active_orders :
        orders[active_orders[b]].broker_order_id = b

\* every open position has a Trade row of the order that opened it
FillBeforePosition ==
    \A s \in SYMBOLS :
        open_positions[s] # NoPosition => trades[open_positions[s].order_id] # <<>>

\* every position removed has its Historical Trade
TradeBeforeRemoval == hist.removed <= Len(historical_trades)

\* C25: a table write completes before the in-memory change it mirrors:
\* the order row has its broker id (the SUBMITTED write) before the id
\* enters active_orders, the Trade row is written before the position is
\* created or updated, and the Historical Trade before the position is
\* removed
C25_WriteThenMemory ==
    /\ RowBeforeIndex
    /\ FillBeforePosition
    /\ TradeBeforeRemoval

-----------------------------------------------------------------------------
(* The frame of the Risk State                                              *)

-----------------------------------------------------------------------------
(* Notifications                                                           *)

\* the number of messages of a kind handed to notifier.send_message
Notified(kind) ==
    Cardinality({i \in DOMAIN notifications : notifications[i].kind = kind})

\* C27: one notification is sent for every position a fill opens, one for
\* every position closed, and one when stop_trading halts trading
C27_LifecycleNotifications ==
    /\ Notified("opened") = hist.opened
    /\ Notified("closed") = hist.removed
    /\ Notified("stopped") = (IF rm.is_trading_stopped THEN 1 ELSE 0)

\* the order-update consumers that are processing an update
Processing ==
    {i \in Running(reader_tasks, "order_update") : reader_tasks[i].busy # 0}

-----------------------------------------------------------------------------
(* The tick buffer                                                         *)

\* the last n items of a sequence
LastN(s, n) == IF Len(s) <= n THEN s ELSE SubSeq(s, Len(s) - n + 1, Len(s))

\* C29: after any sequence of update_tick calls, also calls that raise,
\* the buffer of every symbol has at most 100 entries, and they are the
\* ticks most recently stored for the symbol, in the order of arrival
C29_BufferBounded ==
    \A k \in MarketKeys :
        /\ Len(price_history[k]) <= HistoryLimit
        /\ price_history[k] = LastN(accepted[k], HistoryLimit)

\* NIFTY has had more ticks than the buffer holds, and a tick that made
\* update_tick raise has been taken
C29_Witness ==
    /\ Len(accepted["NIFTY"]) > HistoryLimit
    /\ Len(price_history["NIFTY"]) = HistoryLimit
    /\ seen.ticks.bad > 0
    /\ market_data_queue = <<>>

\* C30: the number of open positions never exceeds settings.risk.max_positions:
\* handle_signal refuses a signal once the limit is reached, so no sequence
\* of signals and fills opens more positions than the limit
C30_PositionsWithinLimit == NumOpen <= MaxPositions

-----------------------------------------------------------------------------
(* SpecOptionSize: calculate_options_position_size on a signal            *)

\* a symbol of none of the indices in lot_sizes
ForeignSymbol == "SENSEX85000CE"

\* premiums of the signals (paise): none, 5.00, 20.00, 100.00 and 250.00
OptionEntries == {0, 500, 2000, 10000, 25000}

\* account balances at startup (paise): those of SpecSize and that of Spec
OptionBalances == SizeEquities \cup {AccountEquity}

OptionSizeInit ==
    /\ \E eq \in OptionBalances :
           rm = RiskManagerInit(eq)
    /\ last_op = NoOp
    /\ n_ops = 0
    /\ size_in \in [symbol : SYMBOLS \cup {ForeignSymbol}, entry : OptionEntries]
    /\ size_out = -1
    /\ CoreInit

\* handle_signal asks self.calculate_options_position_size(signal)
CalculateOptionsPositionSizeCall ==
    /\ size_out = -1
    /\ size_out' = calculate_options_position_size(rm, size_in.symbol,
                                                   size_in.entry)
    /\ UNCHANGED <<rm, size_in, notSizeVars>>

OptionSizeNext == CalculateOptionsPositionSizeCall

SpecOptionSize == OptionSizeInit /\ [][OptionSizeNext]_vars

\* C31: whenever calculate_options_position_size returns a non-zero
\* quantity, the quantity is a whole number of lots between 1 and 3, and
\* quantity x entry premium does not exceed account balance x
\* risk_per_trade_percent / 100
C31_OptionSizeWithinBudget ==
    size_out > 0 =>
        /\ \E lots \in 1..3 : size_out = lots * lot_sizes[SymbolIndex(size_in.symbol)]
        /\ size_out * size_in.entry * 100
               <= get_account_balance(rm) * RiskPerTradePercent

\* C32: after a failed session refresh the supervisor retries in one hour:
\* the next reconnect() attempt follows the failed one after the single
\* one-hour back-off sleep, without first waiting a further refresh interval
C32_RetryAfterBackOff ==
    (refresher.pc = "reconnect" /\ refresher.failed) => refresher.waited = BackOff

\* the consumer takes the COMPLETE update of a closing order (a SELL order:
\* the signals of the strategy only buy) whose symbol has no open position
ClosingFillWithoutPosition ==
    /\ queue # <<>>
    /\ queue' = Tail(queue)
    /\ InternalOrderId(Head(queue)) # 0
    /\ Head(queue).status = "COMPLETE"
    /\ orders[InternalOrderId(Head(queue))].side = "SELL"
    /\ open_positions[orders[InternalOrderId(Head(queue))].symbol] = NoPosition
    /\ hist'.restarts = hist.restarts

\* C33: a fill of a closing order never opens a position: if the position
\* targeted by close_position is already gone when the closing order's
\* COMPLETE update arrives, processing that update leaves the open-position
\* set unchanged
C33_ClosingFillOpensNothing ==
    [][ClosingFillWithoutPosition => open_positions' = open_positions]_vars

-----------------------------------------------------------------------------
(* SpecBareFill: the tasks of SpecLimit on the signals of Spec, and a      *)
(* broker whose fill reports may lack a key                                *)

\* the keys handle_order_update reads from a fill with a default of 0
DefaultedKeys == {"filledshares", "averageprice"}

\* what update.get(k, 0) gives for every key k of a report that lacks key
Without(update, key) == [update EXCEPT ![key] = 0]

\* the broker executes more of an order; its report lacks a key
BrokerFillBare ==
    \E b \in 1..Len(broker), key \in DefaultedKeys :
      \E level \in FillLevels(broker[b].qty), price \in FillPrices :
        LET o == [broker[b] EXCEPT
                    !.filled = level, !.averageprice = price,
                    !.status = IF level = broker[b].qty THEN "complete" ELSE "open"]
        IN  /\ broker[b].status = "open"
            /\ level > broker[b].filled
            /\ level < broker[b].qty => price \in PartialPrices
            /\ hist.events < MaxEvents
            /\ broker' = [broker EXCEPT ![b] = o]
            /\ queue' = Append(queue, Without(UpdateOf(b, o), key))
            /\ hist' = [hist EXCEPT !.events = @ + 1]
            /\ UNCHANGED <<riskVars, sizeVars, mdVars, feedVars, dbVars, omVars, rest, st>>

NextBareFill ==
    \/ CycleStart
    \/ ScanNoSignal
    \/ HandleSignal
    \/ CreateOrderInserted
    \/ BrokerPlaceOrder
    \/ CreateOrderPlaced
    \/ CreateOrderWritten
    \/ ManageKeep
    \/ HandleOrderUpdate
    \/ BrokerFill
    \/ BrokerFillBare

SpecBareFill == Init /\ [][NextBareFill]_vars

\* C34: every open position has a strictly positive quantity and a strictly
\* positive entry price: a fill update that reports zero or no filled
\* quantity, or no average price, never creates or updates a position
C34_PositionsPositive ==
    \A s \in SYMBOLS :
        open_positions[s] # NoPosition
            => open_positions[s].qty > 0 /\ open_positions[s].entry_price > 0

\* the entry orders (BUY: the signals of the strategy only buy) of a symbol
\* whose row has no final status yet
OpenEntryOrders(s) ==
    {i \in 1..Len(orders) :
        /\ orders[i].symbol = s
        /\ orders[i].side = "BUY"
        /\ orders[i].status \notin {"COMPLETE", "CANCELLED", "REJECTED", "FAILED"}}

\* C35: at most one non-terminal entry order exists per symbol at any time,
\* so the fills of two different orders are never merged into one position
\* and a position's quantity never exceeds the requested quantity of the
\* order that opened it
C35_OneEntryOrderPerSymbol ==
    \A s \in SYMBOLS :
        /\ Cardinality(OpenEntryOrders(s)) <= 1
        /\ open_positions[s] # NoPosition =>
              /\ open_positions[s].sole
              /\ open_positions[s].qty <= orders[open_positions[s].order_id].qty

\* the consumer takes the next update off the queue and runs
\* handle_order_update on it
ConsumerTakes ==
    /\ queue # <<>>
    /\ queue' = Tail(queue)
    /\ hist'.restarts = hist.restarts

\* place_order has returned broker id b and create_options_order has not
\* entered it in active_orders
AcceptedNotRegistered(b) == rest.state = "done" /\ rest.resp = b

\* C36: an order update for an order the broker has accepted is never
\* dropped as unknown: the broker id returned by place_order is registered
\* in the active-order index before the consumer processes any update for
\* that order, in every interleaving of the placing task with the consumer
C36_RegisteredBeforeUpdate ==
    [][ConsumerTakes => ~AcceptedNotRegistered(Head(queue).orderid)]_vars

\* the quantities of fill rows, added up
RECURSIVE SumQty(_)
SumQty(rows) == IF rows = <<>> THEN 0 ELSE Head(rows).qty + SumQty(Tail(rows))

\* order row i is the order the broker has booked under id b
BookedAs(i, b) ==
    \/ b \in DOMAIN active_orders /\ active_orders[b] = i
    \/ orders[i].broker_order_id = b

\* the fill rows of every entry order add up to no more than the cumulative
\* quantity the broker has reported for it
FillRowsWithinReported ==
    \A i \in 1..Len(orders), b \in 1..Len(broker) :
        (orders[i].side = "BUY" /\ BookedAs(i, b))
            => SumQty(trades[i]) <= broker[b].filled

\* the consumer takes an entry fill that brings no new shares to the
\* position of its symbol
TakesFillWithoutNewShares ==
    /\ ConsumerTakes
    /\ IsEntryFill(Head(queue))
    /\ open_positions[orders[InternalOrderId(Head(queue))].symbol] # NoPosition
    /\ Head(queue).filledshares
          <= open_positions[orders[InternalOrderId(Head(queue))].symbol].qty

\* C37: persisted fills are not double counted: for every entry order the
\* quantities of its fill (Trade) rows sum to the order's broker-reported
\* cumulative filled quantity, and an update that carries no new shares
\* writes no fill row
C37_FillsNotDoubleCounted ==
    /\ []FillRowsWithinReported
    /\ [][TakesFillWithoutNewShares => trades' = trades]_vars

-----------------------------------------------------------------------------
(* SpecHalt: the strategy task, the consumer and the kill switch, with     *)
(* option prices at which the exit condition of every position holds; the  *)
(* event loop runs every task that can run                                 *)

MaxHaltOrders == 2    \* rows of the orders table

\* one entry order, so that the table has room for the closing order
HandleHaltSignal == HandleSignalOf(SignalSides, MaxHaltOrders - 1)

ManageCloseHalt == ManageCloseOf(MaxHaltOrders)

\* the steps of the strategy task
StrategyStep ==
    \/ CycleStart
    \/ ScanNoSignal
    \/ HandleHaltSignal
    \/ CreateOrderInserted
    \/ CreateOrderPlaced
    \/ CreateOrderWritten
    \/ ManageCloseHalt

NextHalt ==
    \/ CycleStart
    \/ ScanNoSignal
    \/ HandleHaltSignal
    \/ CreateOrderInserted
    \/ BrokerPlaceOrder
    \/ CreateOrderPlaced
    \/ CreateOrderWritten
    \/ ManageCloseHalt
    \/ HandleOrderUpdate
    \/ BrokerFill
    \/ KillSwitch

SpecHalt ==
    Init /\ [][NextHalt]_vars
         /\ WF_vars(StrategyStep) /\ WF_vars(BrokerPlaceOrder)
         /\ WF_vars(HandleOrderUpdate)

\* trading is halted while a position is open
HaltedWithPosition == rm.is_trading_stopped /\ NumOpen > 0

\* every open position has a closing order in the orders table
ClosingSubmitted ==
    \A s \in SYMBOLS :
        open_positions[s] # NoPosition
            => \E i \in 1..Len(orders) :
                  orders[i].symbol = s /\ orders[i].side = "SELL"

\* C38: halting trading does not strand open positions: if the kill switch
\* trips while a position is open, the strategy loop keeps evaluating exit
\* conditions, and a position whose exit condition holds eventually has a
\* closing order submitted
C38_HaltKeepsManaging == HaltedWithPosition ~> ClosingSubmitted

\* reconnect() returns False to the refresher
ReconnectFails == refresher.pc = "reconnect" /\ refresher'.pc = "backoff"

-----------------------------------------------------------------------------
(* Python floats (IEEE 754 binary64). A float is written as its sign and   *)
(* its magnitude in units of 2^-40, the magnitude as two limbs: it is      *)
(* hi * 2^30 + lo. Every value of SpecLedger is a multiple of 2^-40 below   *)
(* 2^20, so that the magnitudes stay below 2^60.                           *)

Limb == 2^30

\* bits of the significand of a binary64
MantissaBits == 53

Float(neg, hi, lo) == [neg |-> neg, hi |-> hi, lo |-> lo]
FloatZero == Float(FALSE, 0, 0)

RECURSIVE BitLength(_)
BitLength(n) == IF n = 0 THEN 0 ELSE 1 + BitLength(n \div 2)

\* the real number x + y: the magnitudes are added, or the smaller is
\* taken from the larger
ExactSum(x, y) ==
    LET less(a, b) == a.hi < b.hi \/ (a.hi = b.hi /\ a.lo < b.lo)
        add(a, b) ==
            [hi |-> a.hi + b.hi + (IF a.lo + b.lo >= Limb THEN 1 ELSE 0),
             lo |-> (a.lo + b.lo) % Limb]
        sub(a, b) ==
            [hi |-> a.hi - b.hi - (IF a.lo < b.lo THEN 1 ELSE 0),
             lo |-> IF a.lo < b.lo THEN a.lo - b.lo + Limb ELSE a.lo - b.lo]
    IN  IF x.neg = y.neg
        THEN Float(x.neg, add(x, y).hi, add(x, y).lo)
        ELSE IF less(x, y)
        THEN Float(y.neg, sub(y, x).hi, sub(y, x).lo)
        ELSE Float(x.neg /\ sub(x, y) # [hi |-> 0, lo |-> 0],
                   sub(x, y).hi, sub(x, y).lo)

\* the binary64 nearest to the real number x, ties to the even significand:
\* the r bits beyond the 53 of the significand are rounded away
FloatRound(x) ==
    LET bits == IF x.hi > 0 THEN 30 + BitLength(x.hi) ELSE BitLength(x.lo)
        r    == IF bits > MantissaBits THEN bits - MantissaBits ELSE 0
        q    == 2^r
        rem  == x.lo % q
        up   == r > 0 /\ (\/ 2 * rem > q
                          \/ 2 * rem = q /\ (x.lo \div q) % 2 = 1)
        lo   == (x.lo - rem) + (IF up THEN q ELSE 0)
    IN  IF lo >= Limb THEN Float(x.neg, x.hi + 1, lo - Limb)
        ELSE Float(x.neg, x.hi, lo)

\* Python's x + y on floats
FloatAdd(x, y) == FloatRound(ExactSum(x, y))

\* Python's x < y and x <= y on floats
FloatLess(x, y) ==
    LET less(a, b) == a.hi < b.hi \/ (a.hi = b.hi /\ a.lo < b.lo)
    IN  IF x.neg # y.neg THEN x.neg
        ELSE IF x.neg THEN less(y, x) ELSE less(x, y)
FloatLeq(x, y) == x = y \/ FloatLess(x, y)

-----------------------------------------------------------------------------
(* SpecLedger: record_trade and stop_trading on a RiskManager whose money   *)
(* attributes are the floats of the source                                 *)

\* account_equity = 100000.0 (test_risk_manager.py), and what __init__
\* computes from it: 100000.0 * (2 / 100) = 2000.0
LedgerEquity == Float(FALSE, 102400000, 0)
LedgerMaxLoss == Float(FALSE, 2048000, 0)

\* realized P&L values handed to record_trade: 0.0, and the values of
\* (256.15 - 256.1) * 100 = 4.9999999999954525 and of
\* (256.35 - 256.15) * 100 = 20.000000000004547, each as a win and as a
\* loss
LedgerPnls ==
    {FloatZero,
     Float(FALSE, 5119, 1073741819), Float(TRUE, 5119, 1073741819),
     Float(FALSE, 20480, 5), Float(TRUE, 20480, 5)}

\* RiskManager.__init__
RiskManagerFloats(account_equity, max_daily_loss_value) ==
    [ initial_equity       |-> account_equity,
      equity               |-> account_equity,
      max_daily_loss_value |-> max_daily_loss_value,
      daily_pnl            |-> FloatZero,
      consecutive_losses   |-> 0,
      is_trading_stopped   |-> FALSE,
      wins                 |-> 0,
      losses               |-> 0,
      total_win_pnl        |-> FloatZero,
      total_loss_pnl       |-> FloatZero ]

\* RiskManager.record_trade, the sums being sums of floats
record_trade_floats(r, pnl) ==
    LET r1 == [r EXCEPT !.daily_pnl = FloatAdd(@, pnl),
                        !.equity = FloatAdd(@, pnl)]
        r2 == IF FloatLess(FloatZero, pnl)
              THEN [r1 EXCEPT !.wins = @ + 1,
                              !.total_win_pnl = FloatAdd(@, pnl),
                              !.consecutive_losses = 0]
              ELSE IF FloatLess(pnl, FloatZero)
              THEN [r1 EXCEPT !.losses = @ + 1,
                              !.total_loss_pnl = FloatAdd(@, pnl),
                              !.consecutive_losses = @ + 1]
              ELSE r1
        \* -self.max_daily_loss_value, of a limit above zero
        limit == [r2.max_daily_loss_value EXCEPT !.neg = TRUE]
        r3 == IF FloatLeq(r2.daily_pnl, limit)
              THEN stop_trading(r2) ELSE r2
    IN  IF r3.consecutive_losses >= ConsecutiveLossesStop
        THEN stop_trading(r3) ELSE r3

LedgerInit ==
    /\ rm = RiskManagerFloats(LedgerEquity, LedgerMaxLoss)
    /\ last_op = NoOp
    /\ n_ops = 0
    /\ size_in = NoSizeIn
    /\ size_out = -1
    /\ CoreInit

\* a caller awaits risk_manager.record_trade(pnl)
LedgerRecordTrade ==
    \E pnl \in LedgerPnls :
        /\ n_ops < MaxOps
        /\ rm' = record_trade_floats(rm, pnl)
        /\ last_op' = [op |-> "record_trade", pnl |-> pnl, result |-> TRUE]
        /\ n_ops' = n_ops + 1
        /\ UNCHANGED notRiskVars

LedgerNext ==
    \/ LedgerRecordTrade
    \/ KillSwitchCall

SpecLedger == LedgerInit /\ [][LedgerNext]_vars

\* record_trade is called with a P&L that is not zero
RecordsNonZero ==
    /\ n_ops' = n_ops + 1
    /\ last_op'.op = "record_trade"
    /\ last_op'.pnl # FloatZero

\* C40: in every reachable state of the risk engine, running equity equals
\* starting equity plus daily realized P&L, daily realized P&L equals
\* summed win P&L plus summed loss P&L, and wins + losses equals the number
\* of record_trade calls made with a non-zero P&L
C40_LedgerIdentities ==
    /\ [](rm.equity = FloatAdd(rm.initial_equity, rm.daily_pnl))
    /\ [](rm.daily_pnl = FloatAdd(rm.total_win_pnl, rm.total_loss_pnl))
    /\ [](n_ops = 0 => rm.wins + rm.losses = 0)
    /\ [][rm'.wins + rm'.losses
            = rm.wins + rm.losses + (IF RecordsNonZero THEN 1 ELSE 0)]_vars

====
